---------------------------- MODULE Spec2Model ----------------------------
(***************************************************************************)
(* A model of the CRINEX (Hatanaka compressed RINEX) decoder of            *)
(* satoshi-pes/crinex: the text-overlay record (strRecord), the integer    *)
(* difference record (diffRecord), the magic/version gate (setup), the     *)
(* header pass-through (scanHeader), the one-shot reader's epoch loop      *)
(* (NewReader), the RINEX emitters and the pull Scanner (NewScanner,       *)
(* ScanEpoch, EpochAsBytes, DataAsBytes, PicoSeconds) in its two           *)
(* revisions.                                                              *)
(*                                                                         *)
(* A byte is a one-character string; a Go string or []byte is a sequence   *)
(* of bytes; the zero byte that make([]byte, n) produces is NUL.           *)
(***************************************************************************)
EXTENDS Integers, Sequences, FiniteSets, TLC

VARIABLES
  rec,      \* diffRecord under test: [MaxDiff, refData, diffData, missing]
  raw,      \* raw values v_1..v_i of the running Hatanaka encoding session
  drErr,    \* error value returned by the last diffRecord.Decode
  drPanic,  \* TRUE once a Decode call faulted (index out of range)
  drSteps,  \* number of Decode calls made so far
  drTok,    \* the token of the last diffRecord.Decode call
  drInit,   \* TRUE once an initialization token has been accepted
  drUpd,    \* update tokens accepted since the last initialization
  encM,     \* MaxDiff of the running Hatanaka encoding session
  twin,     \* a second diffRecord fed beside rec, and what the pair was fed
  sbuf,     \* strRecord.buf
  sprev,    \* strRecord.buf before the last operation on the record
  spatch,   \* argument of the last strRecord.Decode call
  sop,      \* last operation on the strRecord: "none", "decode", "assign", "pico"
  file,     \* the input of NewReader: the names of its parts
  rd,       \* the locals of NewReader and its position (pc)
  rdPrev,   \* rd before the last step of NewReader
  lastOp,   \* last step of NewReader: "none", "setup", "header", "epoch", "return"
  fop,      \* the emitter that has run: "none", "value", "epochV2", "dataV1"
  fin,      \* the emitter call made: its kind and its argument
  fout,     \* bytes the emitter call returned
  fwarn,    \* TRUE when the emitter call wrote to the logger
  sfile,    \* the input of the Scanner: the names of its parts
  sc,       \* the Scanner: its fields and the lines its bufio.Scanner consumed
  scPrev,   \* sc before the last call on the Scanner
  scRet,    \* what the last call returned: "none", "new", "setupError",
            \* "true", "false", "panic"
  scLog,    \* what the caller has seen: calls, true returns, first error,
            \* the bytes of the last emitter call
  loop      \* the position of a ScanEpoch call that runs step by step

diffVars == <<rec, raw, drErr, drPanic, drSteps, drTok, drInit, drUpd, encM, twin>>
strVars  == <<sbuf, sprev, spatch, sop>>
rdVars   == <<file, rd, rdPrev, lastOp>>
emVars   == <<fop, fin, fout, fwarn>>
scVars   == <<sfile, sc, scPrev, scRet, scLog, loop>>
vars     == <<rec, raw, drErr, drPanic, drSteps, drTok, drInit, drUpd, encM, twin,
             sbuf, sprev, spatch, sop, file, rd, rdPrev, lastOp,
             fop, fin, fout, fwarn, sfile, sc, scPrev, scRet, scLog, loop>>

-----------------------------------------------------------------------------
(* Bytes and strings                                                       *)

NUL == "NUL"

Digits == <<"0", "1", "2", "3", "4", "5", "6", "7", "8", "9">>

IsDigit(c) == \E k \in 1..10 : Digits[k] = c

DigitVal(c) == (CHOOSE k \in 1..10 : Digits[k] = c) - 1

Last(s) == s[Len(s)]

\* s[from:] of Go, from 0-based
From(s, from) == SubSeq(s, from + 1, Len(s))

RECURSIVE DigitsVal(_)
\* value of a non-empty run of decimal digits
DigitsVal(s) ==
  IF Len(s) = 0 THEN 0
  ELSE 10 * DigitsVal(SubSeq(s, 1, Len(s) - 1)) + DigitVal(Last(s))

AllDigits(s) == Len(s) > 0 /\ \A k \in 1..Len(s) : IsDigit(s[k])

\* strconv.Atoi: an optional sign, then one or more decimal digits
AtoiBody(s) == IF Len(s) > 0 /\ s[1] \in {"+", "-"} THEN Tail(s) ELSE s

AtoiOk(s) == AllDigits(AtoiBody(s))

AtoiVal(s) ==
  IF Len(s) > 0 /\ s[1] = "-" THEN 0 - DigitsVal(AtoiBody(s))
  ELSE DigitsVal(AtoiBody(s))

Min(a, b) == IF a < b THEN a ELSE b

Max(a, b) == IF a > b THEN a ELSE b

RECURSIVE NatDigits(_)
NatDigits(n) ==
  IF n < 10 THEN <<Digits[n + 1]>>
  ELSE Append(NatDigits(n \div 10), Digits[(n % 10) + 1])

\* decimal rendering of an integer, as the encoder writes a token
Itoa(n) == IF n < 0 THEN <<"-">> \o NatDigits(0 - n) ELSE NatDigits(n)

SeqsUpTo(S, n) == UNION {[1..k -> S] : k \in 0..n}

-----------------------------------------------------------------------------
(* strRecord                                                               *)

ZeroBytes(n) == [k \in 1..n |-> NUL]

\* OverlayByte without the '&' case: the ampersand is stored as it is
OverlayByteKeepAmp(old, c) == IF c = " " THEN old ELSE c

\* the byte strRecord.Decode leaves at position k for patch byte c
OverlayByte(old, c) ==
  IF c = " " THEN old
  ELSE IF c = "&" THEN " "
  ELSE c

StrDecode(buf, s) ==
  IF Len(s) = 0 THEN buf
  ELSE LET grown == IF Len(s) > Len(buf)
                    THEN buf \o ZeroBytes(Len(s) - Len(buf))
                    ELSE buf
       IN [k \in 1..Len(grown) |->
             IF k <= Len(s) THEN OverlayByte(grown[k], s[k]) ELSE grown[k]]

-----------------------------------------------------------------------------
(* diffRecord                                                              *)

NewDiffRecord == [MaxDiff |-> 0, refData |-> 0, diffData |-> <<>>, missing |-> FALSE]

\* integ without the sums: each entry is only the lower of the two it adds
integFirst(d) == [k \in 1..(Len(d) - 1) |-> d[k]]

integ(d) == [k \in 1..(Len(d) - 1) |-> d[k] + d[k + 1]]

RECURSIVE IntegAll(_)
IntegAll(dv) == IF Len(dv) > 1 THEN IntegAll(integ(dv)) ELSE dv

RECURSIVE AscendingSums(_, _, _)
AscendingSums(d, m, k) ==
  IF k > m \/ k > Len(d) THEN d
  ELSE AscendingSums([d EXCEPT ![k] = d[k] + d[k - 1]], m, k + 1)

\* Collapse with the loop run upwards, so that each sum uses an updated entry
CollapseAscending(d, m) == Tail(AscendingSums(d, m, 2))

\* Collapse that keeps the oldest entry
CollapseNoDrop(d, m) ==
  [k \in 1..Len(d) |-> IF k >= 2 /\ k <= m THEN d[k] + d[k - 1] ELSE d[k]]

\* the in-place update of diffData once it holds more than m values
Collapse(d, m) ==
  Tail([k \in 1..Len(d) |-> IF k >= 2 /\ k <= m THEN d[k] + d[k - 1] ELSE d[k]])

\* an initialization that keeps the differences of the arc before
DecodeInitKeepDiffs(r, b) ==
  LET e1 == ~AtoiOk(<<b[1]>>)
      e2 == ~AtoiOk(From(b, 2))
  IN IF e1 \/ e2
     THEN [rec |-> r, err |-> "syntax", panic |-> FALSE]
     ELSE [rec |-> [MaxDiff  |-> AtoiVal(<<b[1]>>),
                    refData  |-> AtoiVal(From(b, 2)),
                    diffData |-> r.diffData,
                    missing  |-> FALSE],
           err |-> "nil", panic |-> FALSE]

DecodeInit(r, b) ==
  LET e1 == ~AtoiOk(<<b[1]>>)
      e2 == ~AtoiOk(From(b, 2))
  IN IF e1 \/ e2
     THEN [rec |-> r, err |-> "syntax", panic |-> FALSE]
     ELSE [rec |-> [MaxDiff  |-> AtoiVal(<<b[1]>>),
                    refData  |-> AtoiVal(From(b, 2)),
                    diffData |-> <<>>,
                    missing  |-> FALSE],
           err |-> "nil", panic |-> FALSE]

\* an update that drops the differences when its token is not an integer
DecodeUpdateDropsDiffs(r, b) ==
  IF ~AtoiOk(b)
  THEN [rec |-> [r EXCEPT !.missing = TRUE, !.diffData = <<>>], err |-> "syntax",
        panic |-> FALSE]
  ELSE LET appended == Append(r.diffData, AtoiVal(b))
           dd == IF Len(appended) > r.MaxDiff
                 THEN Collapse(appended, r.MaxDiff)
                 ELSE appended
           dv == IntegAll(dd)
       IN IF Len(dv) = 0
          THEN [rec |-> [r EXCEPT !.diffData = dd], err |-> "nil", panic |-> TRUE]
          ELSE [rec |-> [r EXCEPT !.diffData = dd,
                                  !.refData = r.refData + dv[1],
                                  !.missing = FALSE],
                err |-> "nil", panic |-> FALSE]

DecodeUpdate(r, b) ==
  IF ~AtoiOk(b)
  THEN [rec |-> [r EXCEPT !.missing = TRUE], err |-> "syntax", panic |-> FALSE]
  ELSE LET appended == Append(r.diffData, AtoiVal(b))
           dd == IF Len(appended) > r.MaxDiff
                 THEN Collapse(appended, r.MaxDiff)
                 ELSE appended
           dv == IntegAll(dd)
       IN IF Len(dv) = 0
          THEN \* dv[0] on an empty slice: index out of range
               [rec |-> [r EXCEPT !.diffData = dd], err |-> "nil", panic |-> TRUE]
          ELSE [rec |-> [r EXCEPT !.diffData = dd,
                                  !.refData = r.refData + dv[1],
                                  !.missing = FALSE],
                err |-> "nil", panic |-> FALSE]

\* Decode that forgets the history of an observable on an empty token
DecodeForgetful(r, b) ==
  IF Len(b) > 2 /\ b[2] = "&" THEN DecodeInit(r, b)
  ELSE IF Len(b) > 0 THEN DecodeUpdate(r, b)
  ELSE [rec |-> [NewDiffRecord EXCEPT !.missing = TRUE], err |-> "nil", panic |-> FALSE]

Decode(r, b) ==
  IF Len(b) > 2 /\ b[2] = "&" THEN DecodeInit(r, b)
  ELSE IF Len(b) > 0 THEN DecodeUpdate(r, b)
  ELSE [rec |-> [r EXCEPT !.missing = TRUE], err |-> "nil", panic |-> FALSE]

-----------------------------------------------------------------------------
(* Text helpers of the reader                                              *)

\* the printable ASCII bytes in byte order, from the space (32) to '~' (126);
\* "GRAVE" stands for the grave accent (96)
Ascii ==
  <<" ", "!", "\"", "#", "$", "%", "&", "'", "(", ")", "*", "+",
    ",", "-", ".", "/", "0", "1", "2", "3", "4", "5", "6", "7",
    "8", "9", ":", ";", "<", "=", ">", "?", "@", "A", "B", "C",
    "D", "E", "F", "G", "H", "I", "J", "K", "L", "M", "N", "O",
    "P", "Q", "R", "S", "T", "U", "V", "W", "X", "Y", "Z", "[",
    "\\", "]", "^", "_", "GRAVE", "a", "b", "c", "d", "e", "f", "g",
    "h", "i", "j", "k", "l", "m", "n", "o", "p", "q", "r", "s",
    "t", "u", "v", "w", "x", "y", "z", "{", "|", "}", "~">>

\* the byte value of c, for the byte comparisons of the code (c > '1')
Code(c) == IF c = NUL THEN 0 ELSE (CHOOSE k \in 1..Len(Ascii) : Ascii[k] = c) + 31

Spaces(n) == [k \in 1..n |-> " "]

\* fmt.Sprintf("%-<n>s", s)
PadRight(s, n) == IF Len(s) >= n THEN s ELSE s \o Spaces(n - Len(s))

\* s[lo:hi] of Go (0-based, hi exclusive)
Slice(s, lo, hi) == SubSeq(s, lo + 1, hi)

HasPrefix(s, p) == Len(s) >= Len(p) /\ SubSeq(s, 1, Len(p)) = p

RECURSIVE TrimLeft(_)
TrimLeft(s) == IF Len(s) > 0 /\ s[1] = " " THEN TrimLeft(Tail(s)) ELSE s

RECURSIVE TrimRight(_)
TrimRight(s) ==
  IF Len(s) > 0 /\ s[Len(s)] = " " THEN TrimRight(SubSeq(s, 1, Len(s) - 1)) ELSE s

\* strings.TrimSpace
TrimSpace(s) == TrimLeft(TrimRight(s))

-----------------------------------------------------------------------------
(* setup: the magic and version gate                                       *)

\* an error value: the sentinel it is or wraps, and its message
NoErr == [is |-> "nil", msg |-> ""]

Err(kind, m) == [is |-> kind, msg |-> m]

MAGIC == <<"C", "O", "M", "P", "A", "C", "T", " ", "R", "I", "N", "E", "X", " ", "F", "O",
      "R", "M", "A", "T">>

VER_3_0 == <<"3", ".", "0">>

VER_1_0 == <<"1", ".", "0">>

\* ver != "3.0" && ver != "1.0" is the failure
setupVersionOk(v) == v = VER_3_0 \/ v = VER_1_0

\* setup that tests the version before the magic
setupVersionFirst(f) ==
  LET t == IF Len(f) > 0 THEN f[1] ELSE <<>>
  IN IF Len(t) < 40
     THEN [ver |-> <<>>, lines |-> 1, err |-> Err("ErrBadMagic", ""), pos |-> Min(1, Len(f))]
     ELSE LET v == TrimSpace(Slice(t, 0, 20))
          IN IF ~setupVersionOk(v)
             THEN [ver |-> v, lines |-> 1, err |-> Err("ErrNotSupportedVersion", ""), pos |-> 1]
             ELSE IF Slice(t, 20, 40) # MAGIC
             THEN [ver |-> v, lines |-> 1, err |-> Err("ErrBadMagic", ""), pos |-> 1]
             ELSE [ver |-> v, lines |-> 2, err |-> NoErr, pos |-> Min(2, Len(f))]

\* setup(r) on the lines f of the input: the version, the line count it
\* reports, the error and the number of lines the scanner has consumed
setup(f) ==
  LET t == IF Len(f) > 0 THEN f[1] ELSE <<>>
  IN IF Len(t) < 40
     THEN [ver |-> <<>>, lines |-> 1, err |-> Err("ErrBadMagic", ""), pos |-> Min(1, Len(f))]
     ELSE LET v == TrimSpace(Slice(t, 0, 20))
          IN IF Slice(t, 20, 40) # MAGIC
             THEN [ver |-> v, lines |-> 1, err |-> Err("ErrBadMagic", ""), pos |-> 1]
             ELSE IF ~setupVersionOk(v)
             THEN [ver |-> v, lines |-> 1, err |-> Err("ErrNotSupportedVersion", ""), pos |-> 1]
             ELSE [ver |-> v, lines |-> 2, err |-> NoErr, pos |-> Min(2, Len(f))]

-----------------------------------------------------------------------------
(* scanHeader: header pass-through and observation types                   *)

NL == "\n"

L_VER == <<"R", "I", "N", "E", "X", " ", "V", "E", "R", "S", "I", "O", "N", " ", "/", " ",
      "T", "Y", "P", "E">>

L_SYS == <<"S", "Y", "S", " ", "/", " ", "#", " ", "/", " ", "O", "B", "S", " ", "T", "Y",
      "P", "E", "S">>

L_TYPES == <<"#", " ", "/", " ", "T", "Y", "P", "E", "S", " ", "O", "F", " ", "O", "B", "S",
      "E", "R", "V">>

L_END == <<"E", "N", "D", " ", "O", "F", " ", "H", "E", "A", "D", "E", "R">>

COMMENT == <<"C", "O", "M", "M", "E", "N", "T">>

VALID_SATSYS == {" ", "G", "R", "E", "J", "C", "I", "S"}

\* a Go map as a function; a missing key reads as the zero value
MapPut(m, k, v) == [x \in (DOMAIN m) \cup {k} |-> IF x = k THEN v ELSE m[x]]

EmptyMap == <<>>

RECURSIVE Fields(_)
\* strings.Fields: the maximal runs of non-space bytes
Fields(s) ==
  LET u == TrimLeft(s)
  IN IF Len(u) = 0 THEN <<>>
     ELSE LET n == CHOOSE k \in 1..Len(u) :
                     /\ \A j \in 1..k : u[j] # " "
                     /\ (k = Len(u) \/ u[k + 1] = " ")
          IN <<SubSeq(u, 1, n)>> \o Fields(SubSeq(u, n + 1, Len(u)))

RECURSIVE parseObsTypesCodes(_, _, _, _, _, _, _, _, _)
RECURSIVE parseObsTypesFrom(_, _, _)

\* the loop over the codes of one system (i, n, idx, s and k of the code)
parseObsTypesCodes(buf, k, s, sys, numCodes, i, n, idx, m) ==
  IF i >= numCodes THEN parseObsTypesFrom(buf, k + 1, m)
  ELSE IF Len(s) < idx + 3
  THEN [obs |-> m, err |-> "too short obstypes", panic |-> FALSE]
  ELSE LET m1 == [m EXCEPT ![sys][i + 1] = Slice(s, idx, idx + 3)]
       IN IF n + 1 = 13 /\ i + 1 < numCodes
          THEN IF k + 1 >= Len(buf)
               THEN [obs |-> m1, err |-> "obstypes header is missing", panic |-> FALSE]
               ELSE parseObsTypesCodes(buf, k + 1, buf[k + 2], sys, numCodes, i + 1, 0, 7, m1)
          ELSE parseObsTypesCodes(buf, k, s, sys, numCodes, i + 1, n + 1, idx + 4, m1)

\* the loop over the lines, from line k (0-based)
parseObsTypesFrom(buf, k, m) ==
  IF k >= Len(buf) THEN [obs |-> m, err |-> "nil", panic |-> FALSE]
  ELSE LET s == buf[k + 1]
       IN IF Len(s) < 6
          THEN [obs |-> m, err |-> "too short obstypes", panic |-> FALSE]
          ELSE LET cnt == TrimSpace(Slice(s, 3, 6))
               IN IF ~AtoiOk(cnt)
                  THEN [obs |-> m, err |-> "cannot parse numCodes", panic |-> FALSE]
                  ELSE IF AtoiVal(cnt) < 0
                  THEN \* make([]string, numCodes) with a negative length
                       [obs |-> m, err |-> "nil", panic |-> TRUE]
                  ELSE parseObsTypesCodes(buf, k, s, s[1], AtoiVal(cnt), 0, 0, 7,
                         MapPut(m, s[1], [j \in 1..AtoiVal(cnt) |-> <<>>]))

parseObsTypes(buf) == parseObsTypesFrom(buf, 0, EmptyMap)

RECURSIVE parseObsTypesV2Codes(_, _, _, _, _, _, _)
RECURSIVE parseObsTypesV2From(_, _, _, _, _)

parseObsTypesV2Codes(buf, k, sep, numCodes, i, n, codes) ==
  IF i >= numCodes THEN parseObsTypesV2From(buf, k + 1, sep, numCodes, codes)
  ELSE IF n >= Len(sep)
  THEN \* sep[n] past the end of the fields
       [obs |-> EmptyMap, err |-> "nil", panic |-> TRUE]
  ELSE IF Len(sep[n + 1]) < 2
  THEN [obs |-> EmptyMap, err |-> "failed to parse obsCode", panic |-> FALSE]
  ELSE LET c1 == [codes EXCEPT ![i + 1] = Slice(sep[n + 1], 0, 2)]
       IN IF n + 1 = 9 /\ i + 1 < numCodes
          THEN IF k + 1 >= Len(buf)
               THEN [obs |-> EmptyMap, err |-> "obstypes header is missing", panic |-> FALSE]
               ELSE LET s2 == buf[k + 2]
                        sep2 == Fields(IF Len(s2) > 60 THEN Slice(s2, 0, 60) ELSE s2)
                    IN parseObsTypesV2Codes(buf, k + 1, sep2, numCodes, i + 1, 0, c1)
          ELSE parseObsTypesV2Codes(buf, k, sep, numCodes, i + 1, n + 1, c1)

parseObsTypesV2From(buf, k, sep, numCodes, codes) ==
  IF k >= Len(buf)
  THEN [obs |-> [x \in VALID_SATSYS |-> codes], err |-> "nil", panic |-> FALSE]
  ELSE parseObsTypesV2Codes(buf, k, sep, numCodes, 0, 0, codes)

parseObsTypesV2(buf) ==
  IF Len(buf) = 0
  THEN [obs |-> EmptyMap, err |-> "failed to parse obsTypes, no data found", panic |-> FALSE]
  ELSE LET s == buf[1]
           sep0 == Fields(s)
       IN IF Len(sep0) = 0 \/ Len(s) < 6
          THEN \* sep[1:] of no fields, s[:6] of a shorter string
               [obs |-> EmptyMap, err |-> "nil", panic |-> TRUE]
          ELSE LET cnt == TrimSpace(Slice(s, 0, 6))
               IN IF ~AtoiOk(cnt)
                  THEN [obs |-> EmptyMap, err |-> "failed to parse numCodes", panic |-> FALSE]
                  ELSE IF AtoiVal(cnt) < 0
                  THEN [obs |-> EmptyMap, err |-> "nil", panic |-> TRUE]
                  ELSE parseObsTypesV2From(buf, 0, Tail(sep0), AtoiVal(cnt),
                         [j \in 1..AtoiVal(cnt) |-> <<>>])

\* headerLine that pads only lines shorter than 60 bytes
headerLineOffByOne(line) ==
  IF Len(line) < 60 THEN PadRight(line, 60) \o COMMENT ELSE line

\* the line as scanHeader stores it: a line without a label becomes a comment
headerLine(line) ==
  IF Len(line) < 61 THEN PadRight(line, 60) \o COMMENT ELSE line

\* one header line in scanHeader: st after the line buf (as stored), with
\* its label lab = buf[60:] and tr = strings.TrimSpace(buf[:20])
scanHeaderLine(st, p, buf, lab, tr) ==
  IF HasPrefix(lab, L_VER) /\ Len(tr) = 0
  THEN \* strings.TrimSpace(buf[:20])[0] of an empty string
       [st EXCEPT !.lines = @ + 1, !.pos = p + 1, !.h = @ \o buf \o <<NL>>,
                  !.panic = TRUE]
  ELSE [st EXCEPT !.lines = @ + 1, !.pos = p + 1, !.h = @ \o buf \o <<NL>>,
                  !.rinexVer = IF HasPrefix(lab, L_VER) THEN tr[1] ELSE @,
                  !.verOk = @ \/ HasPrefix(lab, L_VER),
                  !.obs3 = IF HasPrefix(lab, L_SYS) THEN Append(@, buf) ELSE @,
                  !.obs2 = IF HasPrefix(lab, L_TYPES) THEN Append(@, buf) ELSE @,
                  !.endOk = HasPrefix(lab, L_END)]

\* the line buf as stored, split into the parts scanHeader looks at
scanHeaderStored(st, p, buf) ==
  scanHeaderLine(st, p, buf, From(buf, 60), TrimSpace(Slice(buf, 0, 20)))

RECURSIVE scanHeaderLoop(_, _, _)
RECURSIVE scanHeaderNext(_, _, _)

\* for s.Scan() { ... } of scanHeader, from scanner position p
scanHeaderLoop(f, p, st) ==
  IF p >= Len(f) THEN [st EXCEPT !.pos = Len(f)]
  ELSE scanHeaderNext(f, p, scanHeaderStored(st, p, headerLine(f[p + 1])))

\* the loop after one line: break at END OF HEADER, stop at a fault
scanHeaderNext(f, p, st) ==
  IF st.panic \/ st.endOk THEN st ELSE scanHeaderLoop(f, p + 1, st)

\* the locals of scanHeader before its loop
scanHeaderStart(p) ==
  [h |-> <<>>, obs3 |-> <<>>, obs2 |-> <<>>, rinexVer |-> NUL, verOk |-> FALSE,
   endOk |-> FALSE, lines |-> 0, pos |-> p, panic |-> FALSE]

\* the error scanHeader makes of a failed observation-type parse
obsTypesError(e) == Err("ErrInvalidHeader", "failed to parse obstypes: " \o e)

\* what scanHeader returns after its loop, without the observation types
scanHeaderBase(st) ==
  [obsTypes |-> EmptyMap, h |-> st.h, lines |-> st.lines, pos |-> st.pos,
   err |-> NoErr, panic |-> st.panic]

\* what scanHeader returns with the result r of the observation-type parse
scanHeaderObs(st, r) ==
  [scanHeaderBase(st) EXCEPT !.obsTypes = r.obs, !.panic = r.panic,
                             !.err = IF r.err # "nil" THEN obsTypesError(r.err) ELSE NoErr]

\* the part of scanHeader after its loop
scanHeaderCheck(st) ==
  IF st.panic THEN scanHeaderBase(st)
  ELSE IF ~st.verOk
  THEN [scanHeaderBase(st) EXCEPT !.err = Err("ErrInvalidHeader", "RINEX version not found")]
  ELSE IF ~st.endOk
  THEN [scanHeaderBase(st) EXCEPT !.err = Err("ErrInvalidHeader", "END OF HEADER not found")]
  ELSE IF Code(st.rinexVer) >= Code("3") THEN scanHeaderObs(st, parseObsTypes(st.obs3))
  ELSE IF Code(st.rinexVer) >= Code("2") THEN scanHeaderObs(st, parseObsTypesV2(st.obs2))
  ELSE [scanHeaderBase(st) EXCEPT !.err = Err("ErrNotSupportedVersion", "")]

\* scanHeader on the lines f from scanner position p
scanHeader(f, p) == scanHeaderCheck(scanHeaderLoop(f, p, scanHeaderStart(p)))

-----------------------------------------------------------------------------
(* The one-shot reader: helpers of the epoch loop                          *)

\* s.Scan(); s.Text() with p lines consumed: the next line, "" at the end
Text(f, p) == IF p < Len(f) THEN f[p + 1] ELSE <<>>

\* the lines consumed after one more s.Scan()
Adv(f, p) == Min(p + 1, Len(f))

RECURSIVE SplitN(_, _)
\* strings.SplitN(s, " ", n) for n >= 1
SplitN(s, n) ==
  IF n <= 1 \/ ~(\E k \in 1..Len(s) : s[k] = " ") THEN <<s>>
  ELSE LET k == CHOOSE i \in 1..Len(s) : s[i] = " " /\ \A j \in 1..(i - 1) : s[j] # " "
       IN <<SubSeq(s, 1, k - 1)>> \o SplitN(SubSeq(s, k + 1, Len(s)), n - 1)

\* obsTypes[satSys]: nil for a system the header did not declare
ObsCodesOf(obsTypes, sys) == IF sys \in DOMAIN obsTypes THEN obsTypes[sys] ELSE <<>>

NewSatDataRecord(obsCodes) ==
  [obsCodes |-> obsCodes,
   data |-> [j \in 1..Len(obsCodes) |-> NewDiffRecord],
   lli  |-> [j \in 1..Len(obsCodes) |-> <<>>],
   ss   |-> [j \in 1..Len(obsCodes) |-> <<>>]]

getSatListFrom(b, off) ==
  LET s == TrimRight(b)
      n == IF Len(s) >= off + 3 THEN (Len(s) - off) \div 3 ELSE 0
  IN [k \in 1..n |-> Slice(s, off + 3 * (k - 1), off + 3 * k)]

getSatList(b) == getSatListFrom(b, 41)

getSatListV1(b) == getSatListFrom(b, 32)

\* the special-event test of an initialization line: the epoch flag at
\* byte flag (0-based) above '1' and a count that parses
IsSpecialEvent(epochStr, minLen, flag) ==
  /\ Len(epochStr) >= minLen
  /\ Code(epochStr[flag + 1]) > Code("1")
  /\ AtoiOk(TrimSpace(Slice(epochStr, flag + 1, flag + 4)))

NumSkip(epochStr, flag) == AtoiVal(TrimSpace(Slice(epochStr, flag + 1, flag + 4)))

RECURSIVE SkipLines(_, _, _, _)
\* for i := 0; i < numSkip; i++ { s.Scan(); buf = append(buf, s.Text()...) }
SkipLines(f, p, n, out) ==
  IF n <= 0 THEN [out |-> out, pos |-> p]
  ELSE SkipLines(f, Adv(f, p), n - 1, out \o Text(f, p) \o <<NL>>)

RECURSIVE DecodeObs(_, _, _, _)
RECURSIVE DecodeObsNext(_, _, _, _, _, _)

\* "Update code and phase data" for observables j.. of one satellite (j 0-based)
DecodeObs(sd, vals, j, ver) ==
  IF j >= Len(sd.obsCodes) THEN [sd |-> sd, panic |-> FALSE]
  ELSE IF Len(vals) - 1 < j
  THEN DecodeObs([sd EXCEPT !.data[j + 1].missing = TRUE], vals, j + 1, ver)
  ELSE DecodeObsNext(sd, vals, j, ver, vals[j + 1], Decode(sd.data[j + 1], vals[j + 1]))

\* observable j after dj.Decode(b) gave res: the "initialize arc" of CRINEX 1
DecodeObsNext(sd, vals, j, ver, b, res) ==
  IF res.panic THEN [sd |-> [sd EXCEPT !.data[j + 1] = res.rec], panic |-> TRUE]
  ELSE IF ver = VER_1_0 /\ Len(b) > 1 /\ b[2] = "&"
  THEN IF Len(sd.lli[j + 1]) = 0 \/ Len(sd.ss[j + 1]) = 0
       THEN \* lli[j].buf[0] = ' ' on an empty buffer
            [sd |-> [sd EXCEPT !.data[j + 1] = res.rec], panic |-> TRUE]
       ELSE DecodeObs([sd EXCEPT !.data[j + 1] = res.rec,
                                 !.lli[j + 1][1] = " ", !.ss[j + 1][1] = " "],
                      vals, j + 1, ver)
  ELSE DecodeObs([sd EXCEPT !.data[j + 1] = res.rec], vals, j + 1, ver)

\* the distribution with the two roles exchanged
ApplyFlagBytesSwapped(sd, n, b) ==
  [sd EXCEPT !.lli = [j \in 1..n |-> StrDecode(sd.lli[j], <<b[2 * j]>>)],
             !.ss  = [j \in 1..n |-> StrDecode(sd.ss[j], <<b[2 * j - 1]>>)]]

\* the LLI and SS field b of n observables, padded with spaces
ApplyFlagBytes(sd, n, b) ==
  [sd EXCEPT !.lli = [j \in 1..n |-> StrDecode(sd.lli[j], <<b[2 * j - 1]>>)],
             !.ss  = [j \in 1..n |-> StrDecode(sd.ss[j], <<b[2 * j]>>)]]

\* "Update LLI and SS" from the last field of the line
ApplyFlags(sd, vals) ==
  IF Len(vals) # Len(sd.obsCodes) + 1 THEN sd
  ELSE ApplyFlagBytes(sd, Len(sd.obsCodes),
                      PadRight(vals[Len(sd.obsCodes) + 1], 2 * Len(sd.obsCodes)))

\* if _, ok := data[satId]; !ok { data[satId] = NewSatDataRecord(obsCodes) }
WithSat(data, satId, obsCodes) ==
  IF satId \in DOMAIN data THEN data ELSE MapPut(data, satId, NewSatDataRecord(obsCodes))

\* the map after the line of satId: r is what DecodeObs gave for its record
AfterDecodeObs(data, satId, vals, r) ==
  [data |-> [data EXCEPT ![satId] = IF r.panic THEN r.sd ELSE ApplyFlags(r.sd, vals)],
   panic |-> r.panic]

\* the line of one satellite, split into vals, on a map that has satId
ReadSatLine(data, satId, vals, ver) ==
  AfterDecodeObs(data, satId, vals, DecodeObs(data[satId], vals, 0, ver))

RECURSIVE ReadSats(_, _, _, _, _, _, _, _)
RECURSIVE ReadSatsNext(_, _, _, _, _, _, _)

\* "read data block": one line per satellite of satList, from index k
\* (0-based); dataNil: no make(map[string]satDataRecord) has run yet
ReadSats(f, ver, obsTypes, satList, k, data, dataNil, p) ==
  IF k >= Len(satList) THEN [data |-> data, pos |-> p, panic |-> FALSE]
  ELSE IF dataNil
  THEN \* assignment to an entry of a nil map
       [data |-> data, pos |-> Adv(f, p), panic |-> TRUE]
  ELSE LET satId == satList[k + 1]
           obsCodes == ObsCodesOf(obsTypes, satId[1])
       IN ReadSatsNext(f, ver, obsTypes, satList, k,
            ReadSatLine(WithSat(data, satId, obsCodes), satId,
                        SplitN(Text(f, p), Len(obsCodes) + 1), ver),
            Adv(f, p))

\* the data block after the line of satellite k gave s
ReadSatsNext(f, ver, obsTypes, satList, k, s, p) ==
  IF s.panic THEN [data |-> s.data, pos |-> p, panic |-> TRUE]
  ELSE ReadSats(f, ver, obsTypes, satList, k + 1, s.data, FALSE, p)

-----------------------------------------------------------------------------
(* The one-shot reader: RINEX emission                                     *)

RECURSIVE ZeroPadLeft(_, _)
ZeroPadLeft(s, n) == IF Len(s) >= n THEN s ELSE ZeroPadLeft(<<"0">> \o s, n)

Abs(n) == IF n < 0 THEN 0 - n ELSE n

RECURSIVE StripZeros(_)
RECURSIVE intToRinexLoopSignAtPos(_, _, _, _, _)
RECURSIVE intToRinexLoop(_, _, _, _, _)

\* an integer as a sign and the decimal digits of its magnitude, without
\* leading zeros: int64 values beyond the range of the model checker's integers
Numeral(n) == [neg |-> n < 0, digs |-> NatDigits(Abs(n))]

\* a digit string without its leading zeros ("0" for zero)
StripZeros(ds) ==
  IF Len(ds) > 1 /\ Head(ds) = "0" THEN StripZeros(Tail(ds))
  ELSE IF Len(ds) = 0 THEN <<"0">> ELSE ds

\* the decimal rendering of x * 10^-frac with frac fractional digits,
\* right-justified in width columns
FixedNumeral(x, frac, width) ==
  LET ds == ZeroPadLeft(x.digs, frac + 1)
      body == (IF x.neg THEN <<"-">> ELSE <<>>)
              \o SubSeq(ds, 1, Len(ds) - frac) \o <<".">>
              \o SubSeq(ds, Len(ds) - frac + 1, Len(ds))
  IN IF Len(body) >= width THEN body ELSE Spaces(width - Len(body)) \o body

\* fmt.Sprintf("%<width>.<frac>f", float64(n) * 10^-frac): the decimal
\* rendering of n with frac fractional digits, right-justified (the float
\* product rounds back to n at frac digits for the magnitudes modelled)
FixedPoint(n, frac, width) == FixedNumeral(Numeral(n), frac, width)

\* the digit loop with the sign always stored at pos
intToRinexLoopSignAtPos(buf, ds, i, pos, neg) ==
  LET p1 == pos - 1
      b1 == [buf EXCEPT ![p1 + 1] = Last(ds)]
      p2 == IF i = 2 THEN p1 - 1 ELSE p1
  IN IF Len(ds) = 1
     THEN IF neg THEN [b1 EXCEPT ![p2] = "-"] ELSE b1
     ELSE intToRinexLoopSignAtPos(b1, SubSeq(ds, 1, Len(ds) - 1), i + 1, p2, neg)

\* the digit loop of intToRinexDataBytes (pos 0-based, as in the code) on
\* the digits ds of n: n % 10 is the last digit, n / 10 the digits before
\* it, and n / 10 == 0 when no digit is left
intToRinexLoop(buf, ds, i, pos, neg) ==
  LET p1 == pos - 1
      b1 == [buf EXCEPT ![p1 + 1] = Last(ds)]
      p2 == IF i = 2 THEN p1 - 1 ELSE p1
  IN IF Len(ds) = 1
     THEN IF neg
          THEN IF i < 3 THEN [b1 EXCEPT ![9] = "-"] ELSE [b1 EXCEPT ![p2] = "-"]
          ELSE b1
     ELSE intToRinexLoop(b1, SubSeq(ds, 1, Len(ds) - 1), i + 1, p2, neg)

\* the overflow test with the positive limit on both sides
OverflowsSymmetric(x) == Len(x.digs) > 13

\* n > 9999999999999 || n < -999999999999, on the number of digits; the
\* branch that calls logger.Printf
Overflows(x) ==
  \/ ~x.neg /\ Len(x.digs) > 13
  \/ x.neg /\ Len(x.digs) > 12

OVERFLOW_POS == <<"9", "9", "9", "9", "9", "9", "9", "9", "9", "9", ".", "9", "9", "9">>

OVERFLOW_NEG == <<"-", "9", "9", "9", "9", "9", "9", "9", "9", "9", ".", "9", "9", "9">>

\* intToRinexDataBytes on a numeral
intToRinexDataNumeral(x) ==
  IF Overflows(x)
  THEN IF ~x.neg THEN OVERFLOW_POS ELSE OVERFLOW_NEG
  ELSE intToRinexLoop(Spaces(9) \o <<"0", ".", "0", "0", "0">>, x.digs, 0, 14, x.neg)

intToRinexDataBytes(n) == intToRinexDataNumeral(Numeral(n))

\* strRecord.StringRINEX
StringRINEX(buf) == IF Len(buf) > 41 THEN TrimRight(SubSeq(buf, 1, 41)) ELSE buf

\* the first 35 bytes of s without the padding of a shorter s
Fmt35NoPad(s) == SubSeq(s, 1, Min(Len(s), 35))

\* fmt.Sprintf("%-35.35s", s)
Fmt35(s) == PadRight(SubSeq(s, 1, Min(Len(s), 35)), 35)

RECURSIVE ObsFields(_, _)
\* the observables k.. of one satellite of a RINEX 3 data line (k 0-based)
ObsFields(sd, k) ==
  IF k >= Len(sd.data) THEN [bytes |-> <<>>, panic |-> FALSE]
  ELSE IF sd.data[k + 1].missing
  THEN LET r == ObsFields(sd, k + 1)
       IN [bytes |-> Spaces(16) \o r.bytes, panic |-> r.panic]
  ELSE IF Len(sd.lli[k + 1]) = 0 \/ Len(sd.ss[k + 1]) = 0
  THEN \* d.lli[k].buf[0] of an empty buffer
       [bytes |-> <<>>, panic |-> TRUE]
  ELSE LET r == ObsFields(sd, k + 1)
       IN [bytes |-> intToRinexDataBytes(sd.data[k + 1].refData)
                       \o <<sd.lli[k + 1][1], sd.ss[k + 1][1]>> \o r.bytes,
           panic |-> r.panic]

RECURSIVE DataLinesV3(_, _, _)
DataLinesV3(satList, data, k) ==
  IF k >= Len(satList) THEN [bytes |-> <<>>, panic |-> FALSE]
  ELSE LET r == ObsFields(data[satList[k + 1]], 0)
       IN IF r.panic THEN [bytes |-> <<>>, panic |-> TRUE]
          ELSE LET rest == DataLinesV3(satList, data, k + 1)
               IN [bytes |-> TrimRight(satList[k + 1] \o r.bytes) \o <<NL>> \o rest.bytes,
                   panic |-> rest.panic]

\* the RINEX 3 epoch line of the reader
EpochLineV3(buf, clk) ==
  IF clk.missing THEN Fmt35(StringRINEX(buf)) \o <<NL>>
  ELSE Fmt35(StringRINEX(buf)) \o Spaces(6) \o FixedPoint(clk.refData, 12, 15) \o <<NL>>

EmitV3(buf, clk, satList, data) ==
  LET r == DataLinesV3(satList, data, 0)
  IN [bytes |-> EpochLineV3(buf, clk) \o r.bytes, panic |-> r.panic]

\* e.buf[lo:hi]: the bytes past len(e.buf) are those of the spare capacity
BufView(buf, lo, hi) ==
  IF hi <= Len(buf) THEN Slice(buf, lo, hi)
  ELSE Slice(buf, Min(lo, Len(buf)), Len(buf)) \o ZeroBytes(hi - Max(lo, Len(buf)))

RECURSIVE ContinuationLinesV2Strict(_, _, _, _)
\* the continuation lines with a full line only when more satellites follow it
ContinuationLinesV2Strict(buf, numSat, i, acc) ==
  IF numSat > 12 * i
  THEN IF numSat > 12 * (i + 1)
       THEN ContinuationLinesV2Strict(buf, numSat, i + 1,
              acc \o Spaces(32)
                  \o PadRight(BufView(buf, 32 + 36 * i, 32 + 36 * (i + 1)), 36) \o <<NL>>)
       ELSE ContinuationLinesV2Strict(buf, numSat, i + 1,
              acc \o Spaces(32)
                  \o BufView(buf, 32 + 36 * i, 32 + 36 * i + 3 * (numSat % 12)) \o <<NL>>)
  ELSE acc

RECURSIVE ContinuationLinesV2(_, _, _, _)
\* the continuation lines of StringRINEXV2 from line i
ContinuationLinesV2(buf, numSat, i, acc) ==
  IF numSat > 12 * i
  THEN IF numSat >= 12 * (i + 1)
       THEN ContinuationLinesV2(buf, numSat, i + 1,
              acc \o Spaces(32)
                  \o PadRight(BufView(buf, 32 + 36 * i, 32 + 36 * (i + 1)), 36) \o <<NL>>)
       ELSE ContinuationLinesV2(buf, numSat, i + 1,
              acc \o Spaces(32)
                  \o BufView(buf, 32 + 36 * i, 32 + 36 * i + 3 * (numSat % 12)) \o <<NL>>)
  ELSE acc

\* strRecord.StringRINEXV2(clk); clkNaN is math.IsNaN(clk), clkRef the clock
\* in nanoseconds. A slice expression past len(e.buf) faults unless the
\* capacity of the buffer reaches it (slack).
StringRINEXV2(buf, clkNaN, clkRef, slack) ==
  LET numField == TrimSpace(BufView(buf, 29, 32))
      numSat == IF AtoiOk(numField) THEN AtoiVal(numField) ELSE 0
      maxHi == IF numSat > 12 THEN Max(68, 32 + 3 * numSat) ELSE Max(32, 32 + 3 * numSat)
      clkPart == IF clkNaN THEN <<>> ELSE FixedPoint(clkRef, 9, 12)
  IN IF (maxHi > Len(buf) /\ ~slack) \/ 32 + 3 * numSat < 1
     THEN [bytes |-> <<>>, panic |-> TRUE]
     ELSE IF numSat > 12
     THEN [bytes |-> ContinuationLinesV2(buf, numSat, 1,
                       <<" ">> \o BufView(buf, 1, 68) \o clkPart \o <<NL>>),
           panic |-> FALSE]
     ELSE IF clkNaN
     THEN [bytes |-> <<" ">> \o BufView(buf, 1, 32 + 3 * numSat) \o <<NL>>, panic |-> FALSE]
     ELSE [bytes |-> <<" ">> \o PadRight(BufView(buf, 1, 32 + 3 * numSat), 67)
                       \o clkPart \o <<NL>>,
           panic |-> FALSE]

RECURSIVE ObsLinesV1LastOnly(_, _, _)
\* the data lines of one satellite with a line feed after the last observable only
ObsLinesV1LastOnly(sd, k, cur) ==
  IF k >= Len(sd.data) THEN [bytes |-> <<>>, panic |-> FALSE]
  ELSE IF ~sd.data[k + 1].missing /\ (Len(sd.lli[k + 1]) = 0 \/ Len(sd.ss[k + 1]) = 0)
  THEN [bytes |-> <<>>, panic |-> TRUE]
  ELSE LET field == IF sd.data[k + 1].missing THEN Spaces(16)
                    ELSE intToRinexDataBytes(sd.data[k + 1].refData)
                           \o <<sd.lli[k + 1][1], sd.ss[k + 1][1]>>
           cur1 == cur \o field
       IN IF k = Len(sd.data) - 1
          THEN [bytes |-> TrimRight(cur1) \o <<NL>>, panic |-> FALSE]
          ELSE ObsLinesV1LastOnly(sd, k + 1, cur1)

RECURSIVE ObsLinesV1(_, _, _)
\* the RINEX 2 data lines of one satellite from observable k, five per line
ObsLinesV1(sd, k, cur) ==
  IF k >= Len(sd.data) THEN [bytes |-> <<>>, panic |-> FALSE]
  ELSE IF ~sd.data[k + 1].missing /\ (Len(sd.lli[k + 1]) = 0 \/ Len(sd.ss[k + 1]) = 0)
  THEN [bytes |-> <<>>, panic |-> TRUE]
  ELSE LET field == IF sd.data[k + 1].missing THEN Spaces(16)
                    ELSE intToRinexDataBytes(sd.data[k + 1].refData)
                           \o <<sd.lli[k + 1][1], sd.ss[k + 1][1]>>
           cur1 == cur \o field
       IN IF k = Len(sd.data) - 1 \/ (k + 1) % 5 = 0
          THEN LET r == ObsLinesV1(sd, k + 1, <<>>)
               IN [bytes |-> TrimRight(cur1) \o <<NL>> \o r.bytes, panic |-> r.panic]
          ELSE ObsLinesV1(sd, k + 1, cur1)

RECURSIVE DataLinesV1(_, _, _)
DataLinesV1(satList, data, k) ==
  IF k >= Len(satList) THEN [bytes |-> <<>>, panic |-> FALSE]
  ELSE LET r == ObsLinesV1(data[satList[k + 1]], 0, <<>>)
       IN IF r.panic THEN [bytes |-> <<>>, panic |-> TRUE]
          ELSE LET rest == DataLinesV1(satList, data, k + 1)
               IN [bytes |-> r.bytes \o rest.bytes, panic |-> rest.panic]

EmitV1(buf, clk, satList, data, slack) ==
  LET e == StringRINEXV2(buf, clk.missing, clk.refData, slack)
      r == DataLinesV1(satList, data, 0)
  IN [bytes |-> e.bytes \o r.bytes, panic |-> e.panic \/ r.panic]

-----------------------------------------------------------------------------
(* The one-shot reader: NewReader                                          *)

\* the locals of NewReader before setup
RdInit ==
  [pc |-> "start", pos |-> 0, ver |-> <<>>, lines |-> 0, err |-> NoErr,
   obsTypes |-> EmptyMap, hdr |-> <<>>, epochRec |-> <<>>, data |-> EmptyMap,
   dataNil |-> TRUE, clk |-> NewDiffRecord, out |-> <<>>]

IsInitLine(epochStr) == HasPrefix(epochStr, <<">">>) \/ HasPrefix(epochStr, <<"&">>)

\* the special-event test of the reader for an epoch line
ReaderSpecial(epochStr) ==
  \/ HasPrefix(epochStr, <<">">>) /\ IsSpecialEvent(epochStr, 35, 31)
  \/ HasPrefix(epochStr, <<"&">>) /\ IsSpecialEvent(epochStr, 32, 28)

ReaderNumSkip(epochStr) ==
  IF HasPrefix(epochStr, <<">">>) THEN NumSkip(epochStr, 31) ELSE NumSkip(epochStr, 28)

\* ResetData that keeps the records of the previous epochs
ResetDataKeep(data) == data

\* the data map an initialization line leaves: make(map[string]satDataRecord)
ResetData(data) == EmptyMap

\* ReaderSpecialBlock that forwards the counted lines without the event line
ReaderSpecialBlockNoEventLine(f, r, epochStr) ==
  LET sk == SkipLines(f, r.pos + 1, ReaderNumSkip(epochStr), r.out)
  IN [r EXCEPT !.out = sk.out, !.pos = sk.pos]

\* a special event: the event line and numSkip lines go to the output
ReaderSpecialBlock(f, r, epochStr) ==
  LET sk == SkipLines(f, r.pos + 1, ReaderNumSkip(epochStr), r.out \o epochStr \o <<NL>>)
  IN [r EXCEPT !.out = sk.out, !.pos = sk.pos]

\* the satellites of the epoch record, by the CRINEX version
ReaderSatList(r) ==
  IF r.ver = VER_3_0 THEN getSatList(r.epochRec)
  ELSE IF r.ver = VER_1_0 THEN getSatListV1(r.epochRec)
  ELSE <<>>

\* "CRX to RINEX": the epoch is appended to the output; e is what the
\* emission gave
AfterEmit(r, e) ==
  IF e.panic THEN [r EXCEPT !.pc = "panic"] ELSE [r EXCEPT !.out = @ \o e.bytes]

\* the epoch after its data block gave s
AfterReadSats(r, satList, s, slack) ==
  IF s.panic THEN [r EXCEPT !.data = s.data, !.pos = s.pos, !.pc = "panic"]
  ELSE AfterEmit([r EXCEPT !.data = s.data, !.pos = s.pos],
                 IF r.ver = VER_3_0 THEN EmitV3(r.epochRec, r.clk, satList, s.data)
                 ELSE EmitV1(r.epochRec, r.clk, satList, s.data, slack))

\* the epoch after clk.Decode gave c: the satellite lines follow
AfterClock(f, r, c, slack) ==
  IF c.panic THEN [r EXCEPT !.clk = c.rec, !.pos = Adv(f, r.pos), !.pc = "panic"]
  ELSE AfterReadSats([r EXCEPT !.clk = c.rec], ReaderSatList(r),
         ReadSats(f, r.ver, r.obsTypes, ReaderSatList(r), 0, r.data, r.dataNil,
                  Adv(f, r.pos)),
         slack)

\* the epoch after its epoch line: the clock line follows
AfterEpochLine(f, r, slack) == AfterClock(f, r, Decode(r.clk, Text(f, r.pos)), slack)

\* one iteration of for s.Scan() { ... } of NewReader that decodes an epoch
ReaderEpochBlock(f, r, epochStr, slack) ==
  AfterEpochLine(f,
    [r EXCEPT !.epochRec = IF IsInitLine(epochStr) THEN epochStr
                           ELSE StrDecode(@, epochStr),
              !.data = IF IsInitLine(epochStr) THEN ResetData(@) ELSE @,
              !.dataNil = @ /\ ~IsInitLine(epochStr),
              !.pos = @ + 1],
    slack)

ReaderIteration(f, r, slack) ==
  LET epochStr == f[r.pos + 1]
  IN IF ReaderSpecial(epochStr) THEN ReaderSpecialBlock(f, r, epochStr)
     ELSE ReaderEpochBlock(f, r, epochStr, slack)

-----------------------------------------------------------------------------
(* The pull Scanner                                                        *)

\* the two revisions of the Scanner in the repository
REV_READER == "reader.go"

REV_PART == "part_000"

\* the Scanner after var s Scanner, with the ghost fields of the model:
\* pos, the lines its bufio.Scanner has consumed (s.lineNum); diffed, the
\* numbers of the lines passed to epochRec.Decode; warns, s.Warnings; fails,
\* the scan attempts that ended in an error other than io.EOF; fresh, an
\* initialization line has reset the epoch buffer and the map since the last
\* of them; retries, the first byte of the line of each retry; unknownSat,
\* scanEpoch has returned "unknown satellite found"; eof, the last scan
\* attempt ended with io.EOF; seen, the satellites whose data line has been
\* read since the last initialization line that was stored; lineRead, every
\* data line read so far, with its satellite and its line number
ScInit ==
  [rev |-> REV_READER, pc |-> "start", ver |-> <<>>, headerNil |-> TRUE,
   header |-> <<>>, obsTypes |-> EmptyMap, obsTypesNil |-> TRUE,
   epochRec |-> <<>>, data |-> EmptyMap, dataNil |-> TRUE,
   clk |-> NewDiffRecord, satList |-> <<>>, pos |-> 0, err |-> NoErr,
   warns |-> <<>>, diffed |-> <<>>, epochLineNum |-> 0, fails |-> 0,
   fresh |-> FALSE, retries |-> <<>>, unknownSat |-> FALSE, eof |-> FALSE,
   seen |-> {}, lineRead |-> <<>>]

\* what the caller of the Scanner has seen so far; pulled, the bytes the
\* loop of the usage example has written after the header
NoLog ==
  [calls |-> 0, trues |-> 0, failed |-> FALSE, firstErr |-> NoErr,
   outOf |-> "none", out |-> <<>>, pulled |-> <<>>]

EOF == Err("EOF", "")

\* a result of a method of the Scanner: the Scanner after it and its error
Ret(s, e) == [s |-> s, err |-> e, panic |-> FALSE]

Panic(s) == [s |-> s, err |-> NoErr, panic |-> TRUE]

-----------------------------------------------------------------------------
(* epochRecBytestoTime                                                     *)

\* skip() of package time for a run of spaces in the layout: the value must
\* be at a space or at its end, and loses its leading spaces
SkipSpaces(v) == [ok |-> Len(v) = 0 \/ v[1] = " ", rest |-> TrimLeft(v), val |-> 0]

\* getnum(value, false) of package time: one digit or two
GetNum(v) ==
  IF Len(v) = 0 \/ ~IsDigit(v[1]) THEN [ok |-> FALSE, rest |-> v, val |-> 0]
  ELSE IF Len(v) >= 2 /\ IsDigit(v[2])
  THEN [ok |-> TRUE, rest |-> From(v, 2), val |-> DigitsVal(SubSeq(v, 1, 2))]
  ELSE [ok |-> TRUE, rest |-> From(v, 1), val |-> DigitVal(v[1])]

\* the field "2006" of a layout: four digits
GetYear(v) ==
  IF Len(v) >= 4 /\ AllDigits(SubSeq(v, 1, 4))
  THEN [ok |-> TRUE, rest |-> From(v, 4), val |-> DigitsVal(SubSeq(v, 1, 4))]
  ELSE [ok |-> FALSE, rest |-> v, val |-> 0]

RECURSIVE DropDigits(_)
DropDigits(v) == IF Len(v) > 0 /\ IsDigit(v[1]) THEN DropDigits(Tail(v)) ELSE v

\* a fractional second after the seconds although the layout has none
DropFraction(v) ==
  IF Len(v) >= 2 /\ v[1] \in {".", ","} /\ IsDigit(v[2]) THEN DropDigits(From(v, 2)) ELSE v

IsLeap(y) == y % 4 = 0 /\ (y % 100 # 0 \/ y % 400 = 0)

DaysIn(m, y) ==
  IF m = 2 THEN (IF IsLeap(y) THEN 29 ELSE 28)
  ELSE IF m \in {4, 6, 9, 11} THEN 30 ELSE 31

\* time.Parse("2006  1  2 15  4  5", v) succeeds; each step is fed the rest
\* the step before it left
ParseSecond(y, mo, d, r) ==
  r.ok /\ r.val < 60 /\ Len(DropFraction(r.rest)) = 0
       /\ mo >= 1 /\ mo <= 12 /\ d >= 1 /\ d <= DaysIn(mo, y)

ParseMinute(y, mo, d, r) ==
  r.ok /\ r.val < 60 /\ SkipSpaces(r.rest).ok
       /\ ParseSecond(y, mo, d, GetNum(SkipSpaces(r.rest).rest))

ParseHour(y, mo, d, r) ==
  r.ok /\ r.val < 24 /\ SkipSpaces(r.rest).ok
       /\ ParseMinute(y, mo, d, GetNum(SkipSpaces(r.rest).rest))

ParseDay(y, mo, r) ==
  r.ok /\ SkipSpaces(r.rest).ok /\ ParseHour(y, mo, r.val, GetNum(SkipSpaces(r.rest).rest))

ParseMonth(y, r) ==
  r.ok /\ SkipSpaces(r.rest).ok /\ ParseDay(y, r.val, GetNum(SkipSpaces(r.rest).rest))

ParseYear(r) ==
  r.ok /\ SkipSpaces(r.rest).ok /\ ParseMonth(r.val, GetNum(SkipSpaces(r.rest).rest))

TimeParseOk(v) == ParseYear(GetYear(v))

\* strconv.Atoi(string(bytes.TrimSpace(b[lo:hi]))) succeeds
FieldOk(b, lo, hi) == AtoiOk(TrimSpace(Slice(b, lo, hi)))

\* a blank field reads as 0, any other one goes through strconv.Atoi
BlankOrOk(x) == Len(TrimSpace(x)) = 0 \/ AtoiOk(x)

RECURSIVE TrimLeftZeros(_)
TrimLeftZeros(v) == IF Len(v) > 0 /\ v[1] = "0" THEN TrimLeftZeros(Tail(v)) ELSE v

\* epochRecBytestoTime(b, ver): "nil", the error it returns, or "panic"
\* (b[25] of a buffer of 25 bytes)
epochRecBytestoTime(b, ver) ==
  IF ver = VER_3_0
  THEN IF Len(b) < 29 THEN "ErrInvalidEpochStr"
       ELSE IF TimeParseOk(Slice(b, 2, 29)) THEN "nil" ELSE "ErrInvalidEpochStr"
  ELSE IF ver = VER_1_0
  THEN IF Len(b) < 25 THEN "ErrInvalidEpochStr"
       ELSE IF Len(b) < 26 THEN "panic"
       ELSE IF /\ FieldOk(b, 1, 3) /\ FieldOk(b, 4, 6) /\ FieldOk(b, 7, 9)
               /\ FieldOk(b, 10, 12) /\ FieldOk(b, 13, 15)
               /\ BlankOrOk(TrimSpace(Slice(b, 16, 18)))
               /\ BlankOrOk(TrimLeftZeros(Slice(b, 19, 25)) \o <<b[26]>>)
            THEN "nil" ELSE "ErrInvalidEpochStr"
  ELSE "ErrNotSupportedVersion"

-----------------------------------------------------------------------------
(* checkInitialized, updateEpochRec                                        *)

NotInit == [init |-> FALSE, special |-> FALSE, numSkip |-> 0, err |-> NoErr, panic |-> FALSE]

\* checkInitialized of an initialization line: flag is the offset of the
\* epoch flag, minLen the length the line must have
checkInitLine(rev, epochStr, minLen, flag) ==
  IF Len(epochStr) < minLen
  THEN [NotInit EXCEPT !.init = TRUE,
                       !.err = Err("ErrInvalidEpochStr", "too short initialization epochstr")]
  ELSE IF Code(epochStr[flag + 1]) > Code("1")
  THEN IF AtoiOk(TrimSpace(Slice(epochStr, flag + 1, flag + 4)))
       THEN [NotInit EXCEPT !.init = TRUE, !.special = TRUE,
                            !.numSkip = AtoiVal(TrimSpace(Slice(epochStr, flag + 1, flag + 4)))]
       ELSE IF rev = REV_PART /\ Len(epochStr) < 35
       THEN \* epochStr[32:35] in the error message
            [NotInit EXCEPT !.init = TRUE, !.panic = TRUE]
       ELSE [NotInit EXCEPT !.init = TRUE, !.special = TRUE,
                            !.err = Err("ErrInvalidEpochStr", "failed to parse numSkip")]
  ELSE [NotInit EXCEPT !.init = TRUE]

\* checkInitialized(epochStr); special is specialEventFound in reader.go,
\* where part_000 has only numSkip
checkInitialized(rev, epochStr) ==
  IF HasPrefix(epochStr, <<">">>) THEN checkInitLine(rev, epochStr, 35, 31)
  ELSE IF HasPrefix(epochStr, <<"&">>) THEN checkInitLine(rev, epochStr, 32, 28)
  ELSE NotInit

\* the test that sends updateEpochRec into its skip of a special event
SkipsEvent(rev, ci) == IF rev = REV_READER THEN ci.special ELSE ci.numSkip > 0

\* the end of updateEpochRec: the time tag of the new epoch buffer
updateEpochRecTime(s, t) ==
  IF t = "panic" THEN Panic(s)
  ELSE IF t = "nil" THEN Ret(s, NoErr)
  ELSE Ret(s, Err(t, ""))

\* "update epochRec" that keeps the map at an initialization line
updateEpochRecStoreKeep(s, epochStr, initFlagFound) ==
  IF initFlagFound
  THEN updateEpochRecTime(
         [s EXCEPT !.epochRec = epochStr, !.dataNil = FALSE, !.fresh = TRUE,
                   !.seen = {}],
         epochRecBytestoTime(epochStr, s.ver))
  ELSE updateEpochRecTime(
         [s EXCEPT !.epochRec = StrDecode(s.epochRec, epochStr),
                   !.diffed = Append(s.diffed, s.pos)],
         epochRecBytestoTime(StrDecode(s.epochRec, epochStr), s.ver))

\* "update epochRec" with the line epochStr
updateEpochRecStore(s, epochStr, initFlagFound) ==
  IF initFlagFound
  THEN updateEpochRecTime(
         [s EXCEPT !.epochRec = epochStr, !.data = EmptyMap, !.dataNil = FALSE,
                   !.fresh = TRUE, !.seen = {}],
         epochRecBytestoTime(epochStr, s.ver))
  ELSE updateEpochRecTime(
         [s EXCEPT !.epochRec = StrDecode(s.epochRec, epochStr),
                   !.diffed = Append(s.diffed, s.pos)],
         epochRecBytestoTime(StrDecode(s.epochRec, epochStr), s.ver))

RECURSIVE updateEpochRec(_, _, _)
RECURSIVE updateEpochRecStep(_, _, _, _)
RECURSIVE updateEpochRecSkipped(_, _)

\* updateEpochRec(epochStr) on the lines f
updateEpochRec(f, s, epochStr) ==
  updateEpochRecStep(f, s, epochStr, checkInitialized(s.rev, epochStr))

\* one turn of its loop, after checkInitialized gave ci
updateEpochRecStep(f, s, epochStr, ci) ==
  IF ci.panic THEN Panic(s)
  ELSE IF ci.err # NoErr THEN Ret(s, Err("ErrInvalidEpochStr", ci.err.msg))
  ELSE IF SkipsEvent(s.rev, ci)
  THEN IF s.pos + Max(ci.numSkip, 0) > Len(f)
       THEN Ret([s EXCEPT !.pos = Len(f)], EOF)
       ELSE updateEpochRecSkipped(f, [s EXCEPT !.pos = s.pos + Max(ci.numSkip, 0)])
  ELSE updateEpochRecStore(s, epochStr, ci.init)

\* after the skip: "get new epochStr, and continue to check epochStr"
updateEpochRecSkipped(f, s) ==
  IF s.pos >= Len(f) THEN Ret(s, EOF)
  ELSE IF s.rev = REV_READER /\ ~IsInitLine(f[s.pos + 1])
  THEN Ret([s EXCEPT !.pos = s.pos + 1],
           Err("ErrInvalidEpochStr", "not initialized after a special event"))
  ELSE updateEpochRec(f, [s EXCEPT !.pos = s.pos + 1], f[s.pos + 1])

-----------------------------------------------------------------------------
(* scanEpoch                                                               *)

\* a Warning: the line number and the message
Warning(pos, msg) == [pos |-> pos, msg |-> msg]

\* a list that keeps only the new Warning
WarnAtAlone(s, pos, msg) == [s EXCEPT !.warns = <<Warning(pos, msg)>>]

\* s.Warnings.Add(pos, msg)
WarnAt(s, pos, msg) == [s EXCEPT !.warns = Append(s.warns, Warning(pos, msg))]

\* a satellite ID of the list, right-aligned in three bytes
Right3(tok) == Spaces(3 - Len(tok)) \o SubSeq(tok, 1, Min(3, Len(tok)))

RECURSIVE JoinRight3(_)
JoinRight3(toks) ==
  IF Len(toks) = 0 THEN <<>> ELSE Right3(Head(toks)) \o JoinRight3(Tail(toks))

\* the trailing-ID repair: two bytes left after the last whole slot, a
\* system letter and a digit, are read as the letter, a space and the digit
TrailingId(t, off) ==
  IF /\ Len(t) >= off + 2 /\ (Len(t) - off) % 3 = 2
     /\ t[Len(t) - 1] \in VALID_SATSYS \ {" "} /\ IsDigit(t[Len(t)])
  THEN <<(<<t[Len(t) - 1], " ", t[Len(t)]>>)>>
  ELSE <<>>

\* the list extracted from the trimmed buffer t against the count n
SatListChecked(t, off, n, warn) ==
  IF Len(getSatListFrom(t, off)) = n
  THEN [list |-> getSatListFrom(t, off), err |-> NoErr, warn |-> warn]
  ELSE IF Len(getSatListFrom(t, off) \o TrailingId(t, off)) = 0
  THEN [list |-> <<>>, err |-> Err("ErrInvalidSatList", ""), warn |-> warn]
  ELSE [list |-> getSatListFrom(t, off) \o TrailingId(t, off), err |-> NoErr,
        warn |-> TRUE]

\* the two repairs of the buffer before the extraction
SatListRepaired(t, off, n) ==
  IF Len(t) < off + 3 * n /\ Len(Fields(From(t, Min(off, Len(t))))) = n
  THEN SatListChecked(SubSeq(PadRight(t, off), 1, off)
                        \o JoinRight3(Fields(From(t, Min(off, Len(t))))),
                      off, n, TRUE)
  ELSE IF Len(t) = off + 3 * n + 1 /\ t[off + 1] = " "
  THEN SatListChecked(SubSeq(t, 1, off) \o From(t, off + 1), off, n, TRUE)
  ELSE SatListChecked(t, off, n, FALSE)

\* the number-of-satellites field at offset off, -1 when it does not parse
NumSatField(b, off) ==
  IF Len(b) >= off + 3 /\ AtoiOk(TrimSpace(Slice(b, off, off + 3)))
  THEN AtoiVal(TrimSpace(Slice(b, off, off + 3)))
  ELSE -1

\* getSatListWithCorrection(b, ver, lineNum)
getSatListWithCorrection(b, ver) ==
  IF ver = VER_1_0 THEN SatListRepaired(TrimRight(b), 32, NumSatField(b, 29))
  ELSE SatListRepaired(TrimRight(b), 41, NumSatField(b, 32))

\* "Get and update the satellite list for current epoch"
SatListOf(s) ==
  IF s.rev = REV_READER THEN getSatListWithCorrection(s.epochRec, s.ver)
  ELSE IF s.ver = VER_3_0
  THEN [list |-> getSatList(s.epochRec), err |-> NoErr, warn |-> FALSE]
  ELSE IF s.ver = VER_1_0
  THEN [list |-> getSatListV1(s.epochRec), err |-> NoErr, warn |-> FALSE]
  ELSE [list |-> s.satList, err |-> NoErr, warn |-> FALSE]

\* NewSatDataRecordV1: LLI and SS start as one space
NewSatDataRecordV1(obsCodes) ==
  [obsCodes |-> obsCodes,
   data |-> [j \in 1..Len(obsCodes) |-> NewDiffRecord],
   lli  |-> [j \in 1..Len(obsCodes) |-> <<" ">>],
   ss   |-> [j \in 1..Len(obsCodes) |-> <<" ">>]]

\* "allocate for new sat"
NewSatOf(s, obsCodes) ==
  IF s.rev = REV_PART /\ s.ver = VER_1_0 THEN NewSatDataRecordV1(obsCodes)
  ELSE NewSatDataRecord(obsCodes)

\* the spaces of the whole line, trailing ones included
CountSpacesUntrimmed(t) == Cardinality({k \in 1..Len(t) : t[k] = " "})

\* strings.Count(strings.TrimRight(t, " "), " ")
CountSpaces(t) == Cardinality({k \in 1..Len(TrimRight(t)) : t[k] = " "})

\* fmt.Sprintf("%3d", i)
Fmt3d(i) == Spaces(3 - Len(Itoa(i))) \o Itoa(i)

\* buf with the three bytes num stored from offset off (0-based)
PutCount(buf, off, num) ==
  [k \in 1..Len(buf) |-> IF k > off /\ k <= off + 3 THEN num[k - off] ELSE buf[k]]

\* changeNumSatellites(i)
changeNumSatellites(s, i) ==
  IF i > 999 \/ i < 0 THEN s
  ELSE IF s.ver = VER_3_0
  THEN IF Len(s.epochRec) < 35
       THEN [s EXCEPT !.satList = SubSeq(s.satList, 1, Min(i, Len(s.satList)))]
       ELSE [s EXCEPT !.satList = SubSeq(s.satList, 1, Min(i, Len(s.satList))),
                      !.epochRec = PutCount(s.epochRec, 32, Fmt3d(i))]
  ELSE IF s.ver = VER_1_0
  THEN IF Len(s.epochRec) < 32
       THEN [s EXCEPT !.satList = SubSeq(s.satList, 1, Min(i, Len(s.satList)))]
       ELSE [s EXCEPT !.satList = SubSeq(s.satList, 1, Min(i, Len(s.satList))),
                      !.epochRec = SubSeq(PutCount(s.epochRec, 29, Fmt3d(i)), 1,
                                          Min(Len(s.epochRec), 32 + 3 * i))]
  ELSE [s EXCEPT !.satList = SubSeq(s.satList, 1, Min(i, Len(s.satList)))]

RECURSIVE ScanObs(_, _, _, _)
RECURSIVE ScanObsNext(_, _, _, _, _, _)

\* "Update code and phase data" for observables j.. of one satellite
\* (j 0-based): the record, the error of a Decode call, a fault
ScanObs(sd, vals, j, ver) ==
  IF j >= Len(sd.obsCodes) THEN [sd |-> sd, err |-> "nil", panic |-> FALSE]
  ELSE IF Len(vals) - 1 < j
  THEN ScanObs([sd EXCEPT !.data[j + 1].missing = TRUE], vals, j + 1, ver)
  ELSE ScanObsNext(sd, vals, j, ver, vals[j + 1], Decode(sd.data[j + 1], vals[j + 1]))

\* observable j after dj.Decode(b) gave res
ScanObsNext(sd, vals, j, ver, b, res) ==
  IF res.panic THEN [sd |-> [sd EXCEPT !.data[j + 1] = res.rec], err |-> "nil", panic |-> TRUE]
  ELSE IF res.err # "nil"
  THEN [sd |-> [sd EXCEPT !.data[j + 1] = res.rec], err |-> res.err, panic |-> FALSE]
  ELSE IF ver = VER_1_0 /\ Len(b) > 1 /\ b[2] = "&"
  THEN IF Len(sd.lli[j + 1]) = 0 \/ Len(sd.ss[j + 1]) = 0
       THEN \* lli[j].buf[0] = ' ' on an empty buffer
            [sd |-> [sd EXCEPT !.data[j + 1] = res.rec], err |-> "nil", panic |-> TRUE]
       ELSE ScanObs([sd EXCEPT !.data[j + 1] = res.rec,
                               !.lli[j + 1][1] = " ", !.ss[j + 1][1] = " "],
                    vals, j + 1, ver)
  ELSE ScanObs([sd EXCEPT !.data[j + 1] = res.rec], vals, j + 1, ver)

\* the Scanner after the line of satId gave r for its record
AfterScanObs(s, satId, vals, r) ==
  IF r.panic THEN Panic([s EXCEPT !.data[satId] = r.sd])
  ELSE IF r.err # "nil" THEN Ret([s EXCEPT !.data[satId] = r.sd], Err(r.err, ""))
  ELSE Ret([s EXCEPT !.data[satId] = ApplyFlags(r.sd, vals)], NoErr)

\* the line t of satId on a Scanner whose map has satId
ScanSatLine(s, satId, t) ==
  AfterScanObs(s, satId, SplitN(t, Len(s.data[satId].obsCodes) + 1),
    ScanObs(s.data[satId], SplitN(t, Len(s.data[satId].obsCodes) + 1), 0, s.ver))

\* s.data[satId] = NewSatDataRecord(obsCodes) when satId is new
WithNewSat(s, satId, obsCodes) ==
  IF satId \in DOMAIN s.data THEN s
  ELSE [s EXCEPT !.data = MapPut(s.data, satId, NewSatOf(s, obsCodes))]

\* a test that takes every satellite of the list
ValidSatAny(satId) == TRUE

\* slices.Contains(VALID_SATSYS, satSys) && !strings.HasSuffix(satId, " ")
ValidSat(satId) == satId[1] \in VALID_SATSYS /\ Last(satId) # " "

RECURSIVE ScanSats(_, _, _, _)
RECURSIVE ScanSatsNext(_, _, _, _, _)
RECURSIVE ScanSatsLine(_, _, _, _, _, _)

\* "read data block": satellites k.. of s.satList (k 0-based); nv is
\* numValidSat
ScanSats(f, s, k, nv) ==
  IF k >= Len(s.satList) THEN Ret(s, NoErr)
  ELSE IF Len(s.satList[k + 1]) = 0 THEN Panic(s)
  ELSE IF s.rev = REV_READER /\ ~ValidSat(s.satList[k + 1])
  THEN ScanSats(f, WarnAt(s, s.epochLineNum, "ignored invalid satellite"), k + 1, nv)
  ELSE IF s.pos >= Len(f)
  THEN \* "in the case of EOF, finalize the stored data"
       IF s.rev = REV_READER
       THEN Ret(changeNumSatellites(s, nv + 1), EOF)
       ELSE Ret(IF k > 0 THEN changeNumSatellites(s, k) ELSE s, EOF)
  ELSE ScanSatsLine(f, [s EXCEPT !.pos = s.pos + 1,
                                 !.seen = s.seen \cup {s.satList[k + 1]},
                                 !.lineRead = Append(s.lineRead,
                                                [sat |-> s.satList[k + 1], at |-> s.pos + 1])],
                    k, nv + 1, s.satList[k + 1], f[s.pos + 1])

\* satellite k with its line t: the observation types of its system
ScanSatsLine(f, s, k, nv, satId, t) ==
  IF satId[1] \in DOMAIN s.obsTypes \/ s.rev = REV_PART
  THEN IF s.dataNil /\ ~(satId \in DOMAIN s.data)
       THEN Panic(s)
       ELSE ScanSatsNext(f, k, nv,
              ScanSatLine(WithNewSat(s, satId, ObsCodesOf(s.obsTypes, satId[1])), satId, t),
              satId)
  ELSE IF s.ver = VER_3_0
  THEN IF s.obsTypesNil
       THEN \* s.obsTypes[satSys] = make([]string, n) on a nil map
            Panic(s)
       ELSE ScanSatsLine(f,
              [WarnAt(s, s.pos, "satsys not included in obstypes found") EXCEPT
                 !.obsTypes = MapPut(s.obsTypes, satId[1],
                                     [j \in 1..CountSpaces(t) |-> <<>>])],
              k, nv, satId, t)
  ELSE Ret([s EXCEPT !.unknownSat = TRUE], Err("unknown satellite found", ""))

\* the data block after the line of satellite k gave r
ScanSatsNext(f, k, nv, r, satId) ==
  IF r.panic \/ r.err # NoErr THEN r
  ELSE ScanSats(f, r.s, k + 1, nv)

\* scanEpoch after the satellite list gave l
scanEpochSats(f, s, l) ==
  IF l.err # NoErr THEN Ret(s, l.err)
  ELSE ScanSats(f, IF l.warn
                   THEN [WarnAt(s, s.epochLineNum, "satlist corrected") EXCEPT
                           !.satList = l.list]
                   ELSE [s EXCEPT !.satList = l.list],
                0, 0)

\* scanEpoch after s.clk.Decode(clockBytes) gave c
scanEpochClock(f, s, c) ==
  IF c.panic THEN Panic([s EXCEPT !.clk = c.rec])
  ELSE IF c.err # "nil" THEN Ret([s EXCEPT !.clk = c.rec], Err(c.err, ""))
  ELSE scanEpochSats(f, [s EXCEPT !.clk = c.rec], SatListOf([s EXCEPT !.clk = c.rec]))

\* the bytes s.clk.Decode is given: the line up to its first space in
\* reader.go, the whole line in part_000
ClockBytes(rev, line) == IF rev = REV_READER THEN SplitN(line, 2)[1] ELSE line

\* scanEpoch after updateEpochRec gave u
scanEpochUpdated(f, u) ==
  IF u.panic \/ u.err # NoErr THEN u
  ELSE IF u.s.pos >= Len(f) THEN Ret(u.s, EOF)
  ELSE scanEpochClock(f, [u.s EXCEPT !.pos = u.s.pos + 1, !.epochLineNum = u.s.pos],
         Decode(u.s.clk, ClockBytes(u.s.rev, f[u.s.pos + 1])))

\* scanEpoch(epochStr) on the lines f
scanEpoch(f, s, epochStr) == scanEpochUpdated(f, updateEpochRec(f, s, epochStr))

-----------------------------------------------------------------------------
(* ScanEpoch and the emitters of the Scanner                               *)

\* strings.Index(s, ">"), -1 when s has none
IndexInit(s) ==
  IF \E k \in 1..Len(s) : s[k] = ">"
  THEN (CHOOSE k \in 1..Len(s) : s[k] = ">" /\ \A j \in 1..(k - 1) : s[j] # ">") - 1
  ELSE -1

\* the lines after position p that start with an initialization flag
InitLinesAfter(f, p) == {q \in (p + 1)..Len(f) : IsInitLine(f[q])}

\* s.Warnings.Add(s.lineNum, w) in reader.go; part_000 prints to stderr
Warn(s, w) == IF s.rev = REV_READER THEN WarnAt(s, s.pos, w) ELSE s

\* the scan attempt that left s has failed
Failed(s) == [Warn(s, "failed to scan epoch") EXCEPT !.fails = s.fails + 1, !.fresh = FALSE]

\* goto RETRY_SCAN_EPOCH with the line epochStr
Retrying(s, epochStr) ==
  [s EXCEPT !.retries = Append(s.retries, IF Len(epochStr) = 0 THEN "" ELSE epochStr[1])]

\* what ScanEpoch leaves: the Scanner and "true", "false" or "panic"
Scanned(s, ret) == [s |-> s, ret |-> ret]

RECURSIVE ScanEpochRetry(_, _, _)
RECURSIVE ScanEpochAfter(_, _, _)
RECURSIVE ScanEpochSeek(_, _, _)

\* RETRY_SCAN_EPOCH: with the epoch line epochStr
ScanEpochRetry(f, s, epochStr) == ScanEpochAfter(f, epochStr, scanEpoch(f, s, epochStr))

\* after scanEpoch(epochStr) gave r
ScanEpochAfter(f, epochStr, r) ==
  IF r.panic THEN Scanned(r.s, "panic")
  ELSE IF r.err = EOF \/ r.err = NoErr
  THEN Scanned([r.s EXCEPT !.eof = (r.err = EOF)], "true")
  ELSE IF IndexInit(epochStr) > 0
  THEN ScanEpochRetry(f, Retrying(Warn(Failed(r.s), "epochrec modified"),
                                  From(epochStr, IndexInit(epochStr))),
                      From(epochStr, IndexInit(epochStr)))
  ELSE ScanEpochSeek(f, Failed(r.s), r.err)

\* "Search for the next initialization flag"
ScanEpochSeek(f, s, err) ==
  IF InitLinesAfter(f, s.pos) = {}
  THEN Scanned([s EXCEPT !.pos = Len(f), !.err = err], "false")
  ELSE ScanEpochRetry(f,
         [Retrying(s, f[CHOOSE q \in InitLinesAfter(f, s.pos) :
                          \A x \in InitLinesAfter(f, s.pos) : q <= x])
            EXCEPT !.pos = CHOOSE q \in InitLinesAfter(f, s.pos) :
                             \A x \in InitLinesAfter(f, s.pos) : q <= x],
         f[CHOOSE q \in InitLinesAfter(f, s.pos) :
             \A x \in InitLinesAfter(f, s.pos) : q <= x])

\* ScanEpoch from "scan next data block and update data"
ScanEpochBody(f, s) ==
  IF s.pos >= Len(f) THEN Scanned([s EXCEPT !.err = NoErr], "false")
  ELSE ScanEpochRetry(f, [s EXCEPT !.pos = s.pos + 1], f[s.pos + 1])

\* scanHeader left its named result obsTypes nil: it returned before the
\* observation-type parse
ObsTypesNil(h) ==
  \/ h.panic
  \/ h.err.is = "ErrNotSupportedVersion"
  \/ h.err.msg \in {"RINEX version not found", "END OF HEADER not found"}

\* ParseHeader: the results h of scanHeader stored in the Scanner
ParseHeader(s, h) ==
  [s EXCEPT !.obsTypes = h.obsTypes, !.obsTypesNil = ObsTypesNil(h),
            !.header = h.h, !.headerNil = (Len(h.h) = 0), !.pos = h.pos]

\* ScanEpoch after the header parse gave h
ScanEpochParsed(f, s, h) ==
  IF h.panic THEN Scanned(ParseHeader(s, h), "panic")
  ELSE IF h.err # NoErr
  THEN IF s.rev = REV_READER
       THEN Scanned([ParseHeader(s, h) EXCEPT
                       !.err = Err(h.err.is, "failed to parse header: " \o h.err.msg)],
                    "false")
       ELSE Scanned(ParseHeader(s, h), "false")
  ELSE ScanEpochBody(f, ParseHeader(s, h))

\* ScanEpoch() on the lines f
ScanEpoch(f, s) ==
  IF s.headerNil THEN ScanEpochParsed(f, s, scanHeader(f, s.pos))
  ELSE ScanEpochBody(f, s)

\* NewScanner(r) on the lines f, after setup gave r
NewScanner(s, r) ==
  [s EXCEPT !.pc = IF r.err = NoErr THEN "ready" ELSE "failed",
            !.ver = r.ver, !.pos = r.pos, !.err = NoErr,
            !.obsTypes = EmptyMap, !.obsTypesNil = FALSE]

\* EpochAsBytes(); slack as in StringRINEXV2
EpochAsBytes(s, slack) ==
  IF s.ver = VER_3_0 THEN [bytes |-> EpochLineV3(s.epochRec, s.clk), panic |-> FALSE]
  ELSE IF s.ver = VER_1_0
  THEN StringRINEXV2(s.epochRec, s.clk.missing, s.clk.refData, slack)
  ELSE [bytes |-> <<>>, panic |-> FALSE]

\* s.data[satId]: the zero record for a satellite the map does not have
DataOf(data, satId) ==
  IF satId \in DOMAIN data THEN data[satId] ELSE NewSatDataRecord(<<>>)

\* fmt.Sprintf("%3.3s", satId)
Fmt3s(satId) == Spaces(3 - Len(satId)) \o SubSeq(satId, 1, Min(3, Len(satId)))

RECURSIVE ScDataLinesV3(_, _, _, _)
\* the "3.0" case of DataAsBytes from satellite k (0-based)
ScDataLinesV3(satList, data, k, acc) ==
  IF k >= Len(satList) THEN [bytes |-> acc, panic |-> FALSE]
  ELSE IF ObsFields(DataOf(data, satList[k + 1]), 0).panic
  THEN [bytes |-> acc, panic |-> TRUE]
  ELSE ScDataLinesV3(satList, data, k + 1,
         acc \o TrimRight(Fmt3s(satList[k + 1])
                            \o ObsFields(DataOf(data, satList[k + 1]), 0).bytes)
             \o <<NL>>)

RECURSIVE ScDataLinesV1(_, _, _, _)
\* the "1.0" case of DataAsBytes from satellite k (0-based)
ScDataLinesV1(satList, data, k, acc) ==
  IF k >= Len(satList) THEN [bytes |-> acc, panic |-> FALSE]
  ELSE IF ObsLinesV1(DataOf(data, satList[k + 1]), 0, <<>>).panic
  THEN [bytes |-> acc, panic |-> TRUE]
  ELSE ScDataLinesV1(satList, data, k + 1,
         acc \o ObsLinesV1(DataOf(data, satList[k + 1]), 0, <<>>).bytes)

\* DataAsBytes()
DataAsBytes(s) ==
  IF s.ver = VER_3_0 THEN ScDataLinesV3(s.satList, s.data, 0, <<>>)
  ELSE IF s.ver = VER_1_0 THEN ScDataLinesV1(s.satList, s.data, 0, <<>>)
  ELSE [bytes |-> <<>>, panic |-> FALSE]


-----------------------------------------------------------------------------
(* Idle values of the parts a specification does not exercise              *)

\* the second record before any token: prior counts the tokens each record
\* was fed alone, synced is TRUE once both accepted one initialization
\* token, differed that they were not equal just before it, steps counts the
\* tokens fed to both since
TwinIdle ==
  [rec |-> NewDiffRecord, err |-> "nil", panic |-> FALSE, priorA |-> 0, priorB |-> 0,
   synced |-> FALSE, differed |-> FALSE, steps |-> 0]

DiffIdle ==
  /\ rec = NewDiffRecord /\ raw = <<>> /\ drErr = "nil" /\ drPanic = FALSE
  /\ drSteps = 0 /\ drTok = <<>> /\ drInit = FALSE /\ drUpd = 0 /\ encM = 0
  /\ twin = TwinIdle

StrIdle == sbuf = <<>> /\ sprev = <<>> /\ spatch = <<>> /\ sop = "none"

NoFile == [head |-> "noLines", hdr |-> "empty", body |-> <<>>]

ReaderIdle == file = NoFile /\ rd = RdInit /\ rdPrev = RdInit /\ lastOp = "none"

EmitIdle == fop = "none" /\ fin = <<>> /\ fout = <<>> /\ fwarn = FALSE

\* no ScanEpoch call is running: pc is the place of the call in ScanEpoch,
\* epochStr its local of that name, skip the lines of a special event still
\* to skip, err the error of the failed attempt, at the Scanner at the call
LoopIdle == [pc |-> "idle", epochStr |-> <<>>, skip |-> 0, err |-> NoErr, at |-> ScInit]

ScannerIdle ==
  /\ sfile = NoFile /\ sc = ScInit /\ scPrev = ScInit
  /\ scRet = "none" /\ scLog = NoLog /\ loop = LoopIdle

-----------------------------------------------------------------------------
(* SpecStr: a strRecord under Decode calls and raw assignments             *)

MaxPatchLen == 3

PatchBytes == {" ", "&", "a"}

Patches == SeqsUpTo(PatchBytes, MaxPatchLen)

\* raw epoch lines stored by epochRec.buf = []byte(epochStr)
AssignLines == {<<">", "b">>, <<"&", " ", "b">>}

StrInit == EmitIdle /\ ScannerIdle /\ StrIdle /\ DiffIdle /\ ReaderIdle

StrDecodeCall ==
  \E p \in Patches :
    /\ sprev' = sbuf
    /\ spatch' = p
    /\ sbuf' = StrDecode(sbuf, p)
    /\ sop' = "decode"
    /\ UNCHANGED <<diffVars, rdVars, emVars, scVars>>

StrAssign ==
  \E l \in AssignLines :
    /\ sprev' = sbuf
    /\ spatch' = <<>>
    /\ sbuf' = l
    /\ sop' = "assign"
    /\ UNCHANGED <<diffVars, rdVars, emVars, scVars>>

StrNext == StrDecodeCall \/ StrAssign

SpecStr == StrInit /\ [][StrNext]_vars

-----------------------------------------------------------------------------
(* SpecPico: the pico-second record of the Scanner under the clock lines   *)
(* of CRINEX 3.1                                                           *)

\* the second field of a clock line
PicoFields ==
  { <<"1", "2", "3", "4", "5">>, <<"0", "0", "0", "0", "0">>,
    <<"9", "9", "9", "9", "9">>, <<" ", " ", " ", " ", "7">>, <<"4", "2">>,
    <<"-", "1", "2", "3", "4">>, <<"1", "2", "x", "4", "5">>, <<"&", "&", "&", "&", "&">>,
    <<"1", "2", "3", "4", "5", "6">>, <<" ", " ", " ", " ", " ", "6">>, <<" ">> }

\* a clock line: the clock field, empty or an update token, then the field
ClockLines ==
  {<<>>, <<"5">>} \cup {c \o <<" ">> \o p : c \in {<<>>, <<"5">>}, p \in PicoFields}

\* allBytesAreNumeric(b): every byte is a decimal digit
allBytesAreNumeric(b) == \A k \in 1..Len(b) : IsDigit(b[k])

\* PicoSeconds() on the bytes of s.picoSec
PicoSeconds(buf) ==
  IF Len(buf) = 0 THEN 0 - 1
  ELSE IF ~allBytesAreNumeric(buf) THEN 0 - 1
  ELSE IF ~AtoiOk(buf) THEN 0 - 1
  ELSE AtoiVal(buf)

PicoInit == StrInit

\* "decode the optional pico-second record" of a clock line under a version
\* of 3.1 or more
PicoDecode ==
  \E line \in ClockLines :
    /\ sprev' = sbuf
    /\ spatch' = line
    /\ sbuf' = IF Len(SplitN(line, 2)) >= 2 THEN StrDecode(sbuf, SplitN(line, 2)[2]) ELSE sbuf
    /\ sop' = "pico"
    /\ UNCHANGED <<diffVars, rdVars, emVars, scVars>>

SpecPico == PicoInit /\ [][PicoDecode]_vars

-----------------------------------------------------------------------------
(* SpecEnc: a diffRecord fed the tokens of a Hatanaka encoder              *)

MaxEncSteps == 7

MaxOrder == 5

RawVals == {0 - 3, 0, 2}

RECURSIVE DiffAt(_, _, _)
\* the order-k difference of vs at index i (i > k)
DiffAt(vs, k, i) ==
  IF k = 0 THEN vs[i]
  ELSE DiffAt(vs, k - 1, i) - DiffAt(vs, k - 1, i - 1)

\* token of the last value of vs in a session of order m
HatanakaToken(vs, m) == Itoa(DiffAt(vs, Min(Len(vs) - 1, m), Len(vs)))

InitToken(m, v) == <<Digits[m + 1], "&">> \o Itoa(v)

EncInit == EmitIdle /\ ScannerIdle /\ DiffIdle /\ StrIdle /\ ReaderIdle

Feed(tok) ==
  LET res == Decode(rec, tok)
      isInit == Len(tok) > 2 /\ tok[2] = "&"
  IN /\ rec' = res.rec
     /\ drErr' = res.err
     /\ drPanic' = res.panic
     /\ drSteps' = drSteps + 1
     /\ drTok' = tok
     /\ drInit' = (drInit \/ (isInit /\ res.err = "nil"))
     /\ drUpd' = IF isInit /\ res.err = "nil" THEN 0
                 ELSE IF ~isInit /\ Len(tok) > 0 /\ res.err = "nil" /\ ~res.panic
                      THEN drUpd + 1
                      ELSE drUpd

EncStart ==
  /\ ~drPanic /\ drSteps < MaxEncSteps
  /\ \E m \in 1..MaxOrder, v \in RawVals :
       /\ Feed(InitToken(m, v))
       /\ raw' = <<v>>
       /\ encM' = m
  /\ UNCHANGED <<twin, strVars, rdVars, emVars, scVars>>

EncNext ==
  /\ ~drPanic /\ drSteps < MaxEncSteps /\ raw # <<>>
  /\ \E v \in RawVals :
       /\ Feed(HatanakaToken(Append(raw, v), encM))
       /\ raw' = Append(raw, v)
       /\ encM' = encM
  /\ UNCHANGED <<twin, strVars, rdVars, emVars, scVars>>

EncNextStep == EncStart \/ EncNext

SpecEnc == EncInit /\ [][EncNextStep]_vars

-----------------------------------------------------------------------------
(* SpecDiff: a diffRecord fed arbitrary tokens                             *)

MaxDiffSteps == 4

Tokens ==
  { <<>>, <<"0">>, <<"1">>, <<"-", "2">>, <<"x">>, <<"1", "&">>,
    <<"1", "&", "5">>, <<"2", "&", "-", "1">>, <<"3", "&", "7">>,
    <<"0", "&", "4">>, <<"x", "&", "1">>, <<"2", "&", "x">>,
    <<"3", "&", "1", "2", "3", "4", "5", "6">> }

DiffInit == EmitIdle /\ ScannerIdle /\ DiffIdle /\ StrIdle /\ ReaderIdle

DiffFeed ==
  /\ ~drPanic /\ drSteps < MaxDiffSteps
  /\ \E tok \in Tokens : Feed(tok)
  /\ UNCHANGED <<raw, encM, twin>>
  /\ UNCHANGED <<strVars, rdVars, emVars, scVars>>

DiffNext == DiffFeed

SpecDiff == DiffInit /\ [][DiffNext]_vars

-----------------------------------------------------------------------------
(* SpecTwin: two diffRecords with different histories fed the same tokens  *)
(* from one initialization token on                                        *)

\* the tokens each record is fed alone
MaxPrior == 2

\* the tokens both records are fed after the initialization token
MaxTwinSteps == 3

IsInitToken(tok) == Len(tok) > 2 /\ tok[2] = "&"

TwinInit == DiffInit

\* r.Decode(tok) on the first record alone
TwinPriorA ==
  /\ ~twin.synced /\ twin.priorA < MaxPrior
  /\ \E tok \in Tokens :
       /\ ~Decode(rec, tok).panic
       /\ rec' = Decode(rec, tok).rec
       /\ drErr' = Decode(rec, tok).err
       /\ twin' = [twin EXCEPT !.priorA = twin.priorA + 1]
  /\ UNCHANGED <<raw, drPanic, drSteps, drTok, drInit, drUpd, encM>>
  /\ UNCHANGED <<strVars, rdVars, emVars, scVars>>

\* r.Decode(tok) on the second record alone
TwinPriorB ==
  /\ ~twin.synced /\ twin.priorB < MaxPrior
  /\ \E tok \in Tokens :
       /\ ~Decode(twin.rec, tok).panic
       /\ twin' = [twin EXCEPT !.rec = Decode(twin.rec, tok).rec,
                               !.err = Decode(twin.rec, tok).err,
                               !.priorB = twin.priorB + 1]
  /\ UNCHANGED <<rec, raw, drErr, drPanic, drSteps, drTok, drInit, drUpd, encM>>
  /\ UNCHANGED <<strVars, rdVars, emVars, scVars>>

\* the pair after both records were fed tok, with the results a and b
TwinAfter(tok, a, b) ==
  /\ rec' = a.rec
  /\ drErr' = a.err
  /\ drPanic' = a.panic
  /\ twin' = [twin EXCEPT
                !.rec = b.rec, !.err = b.err, !.panic = b.panic,
                !.synced = twin.synced \/ (IsInitToken(tok) /\ a.err = "nil" /\ b.err = "nil"),
                !.differed = IF twin.synced THEN twin.differed ELSE rec # twin.rec,
                !.steps = IF twin.synced THEN twin.steps + 1 ELSE 0]

\* both records are fed the same initialization token
TwinReinit ==
  /\ ~twin.synced
  /\ \E tok \in {t \in Tokens : IsInitToken(t)} :
       TwinAfter(tok, Decode(rec, tok), Decode(twin.rec, tok))
  /\ UNCHANGED <<raw, drSteps, drTok, drInit, drUpd, encM>>
  /\ UNCHANGED <<strVars, rdVars, emVars, scVars>>

\* both records are fed the same token after the initialization token
TwinFeed ==
  /\ twin.synced /\ ~drPanic /\ ~twin.panic /\ twin.steps < MaxTwinSteps
  /\ \E tok \in Tokens : TwinAfter(tok, Decode(rec, tok), Decode(twin.rec, tok))
  /\ UNCHANGED <<raw, drSteps, drTok, drInit, drUpd, encM>>
  /\ UNCHANGED <<strVars, rdVars, emVars, scVars>>

TwinNext == TwinPriorA \/ TwinPriorB \/ TwinReinit \/ TwinFeed

SpecTwin == TwinInit /\ [][TwinNext]_vars

-----------------------------------------------------------------------------
(* Input files: the two CRINEX lines, the RINEX header, the data blocks    *)

\* line 1 of a CRINEX file for a version field and a magic field
CrxLine(verField, magic) ==
  PadRight(verField, 20) \o magic \o Spaces(20) \o <<"C", "R", "I", "N", "E", "X", " ", "V",
        "E", "R", "S", " ", " ", " ", "/", " ", "T", "Y", "P", "E">>

ProgLine == <<"p", "r", "o", "g">>

BadMagic == <<"C", "O", "M", "P", "A", "C", "T", " ", "R", "I", "N", "E", "X", " ", "F",
      "O", "R", "M", "A", "X">>

\* the first lines of a file, by name
HeadLines(name) ==
  CASE name = "crx3.0"     -> <<CrxLine(VER_3_0, MAGIC), ProgLine>>
    [] name = "crx1.0"     -> <<CrxLine(VER_1_0, MAGIC), ProgLine>>
    [] name = "crx3.1"     -> <<CrxLine(<<"3", ".", "1">>, MAGIC), ProgLine>>
    [] name = "crx2.0"     -> <<CrxLine(<<"2", ".", "0">>, MAGIC), ProgLine>>
    [] name = "crxBlank"   -> <<CrxLine(<<>>, MAGIC), ProgLine>>
    [] name = "crx3.0lead" -> <<CrxLine(<<" ", " ", "3", ".", "0">>, MAGIC), ProgLine>>
    [] name = "crx3.0cut40" -> <<SubSeq(CrxLine(VER_3_0, MAGIC), 1, 40), ProgLine>>
    [] name = "crx3.0cut39" -> <<SubSeq(CrxLine(VER_3_0, MAGIC), 1, 39), ProgLine>>
    [] name = "badMagic3.0" -> <<CrxLine(VER_3_0, BadMagic), ProgLine>>
    [] name = "badMagic2.0" -> <<CrxLine(<<"2", ".", "0">>, BadMagic), ProgLine>>
    [] name = "emptyLine"  -> <<<<>>, ProgLine>>
    [] name = "noLines"    -> <<>>
    [] name = "oneLine3.0" -> <<CrxLine(VER_3_0, MAGIC)>>

GoodHeads == {"crx3.0", "crx1.0", "crx3.0lead", "crx3.0cut40"}

OtherHeads ==
  {"crx3.1", "crx2.0", "crxBlank", "crx3.0cut39", "badMagic3.0", "badMagic2.0",
   "emptyLine", "noLines", "oneLine3.0"}

\* a header line: the content in columns 1-60, the label from column 61
HLine(content, label) == PadRight(content, 60) \o label

VerLine(v) == HLine(Spaces(5) \o v, L_VER)

EndLine == HLine(<<>>, L_END)

RECURSIVE JoinCodes(_)
\* the 3-byte codes of a SYS / # / OBS TYPES line, one space before each
JoinCodes(codes) ==
  IF Len(codes) = 0 THEN <<>> ELSE <<" ">> \o Head(codes) \o JoinCodes(Tail(codes))

\* a SYS / # / OBS TYPES line: system, count in columns 4-6, the codes
SysLine(sys, count, codes) == HLine(<<sys, " ", " ">> \o count \o JoinCodes(codes), L_SYS)

C1C == <<"C", "1", "C">>

L1C == <<"L", "1", "C">>

ThirteenCodes == [k \in 1..13 |-> IF k % 2 = 1 THEN C1C ELSE L1C]

\* a # / TYPES OF OBSERV line: count in columns 1-6, the 2-byte codes
TypesLine(count, codes) == HLine(count \o codes, L_TYPES)

TwoCodesV2 == <<" ", " ", " ", " ", "C", "1", " ", " ", " ", " ", "L", "1">>

NoteLine == <<"n", "o", "t", "e">>

\* a line of 61 bytes without a header label
LongNoteLine == [k \in 1..61 |-> "x"]

\* a line of exactly 60 bytes
SixtyLine == [k \in 1..60 |-> "y"]

\* the RINEX header lines of a file, by name
HeaderLines(name) ==
  CASE name = "h3" ->
         <<VerLine(<<"3", ".", "0", "4">>), SysLine("G", <<" ", " ", "2">>, <<C1C, L1C>>),
           NoteLine, EndLine>>
    [] name = "h3notes" ->
         <<VerLine(<<"3", ".", "0", "4">>), SixtyLine, LongNoteLine, <<>>,
           SysLine("G", <<" ", " ", "2">>, <<C1C, L1C>>), EndLine>>
    [] name = "h3one" ->
         <<VerLine(<<"3", ".", "0", "4">>), SysLine("G", <<" ", " ", "1">>, <<C1C>>), EndLine>>
    [] name = "h3noObs" -> <<VerLine(<<"3", ".", "0", "4">>), EndLine>>
    [] name = "h3cont" ->
         <<VerLine(<<"4", ".", "0", "0">>),
           SysLine("G", <<" ", "1", "4">>, ThirteenCodes),
           SysLine(" ", <<" ", " ", " ">>, <<L1C>>), EndLine>>
    [] name = "h3noCont" ->
         <<VerLine(<<"3", ".", "0", "4">>),
           SysLine("G", <<" ", "1", "4">>, ThirteenCodes), EndLine>>
    [] name = "h3badCount" ->
         <<VerLine(<<"3", ".", "0", "4">>), SysLine("G", <<" ", " ", "x">>, <<C1C>>),
           EndLine>>
    [] name = "h3negCount" ->
         <<VerLine(<<"3", ".", "0", "4">>), SysLine("G", <<" ", "-", "1">>, <<C1C>>),
           EndLine>>
    [] name = "h2" ->
         <<VerLine(<<"2", ".", "1", "1">>), TypesLine(Spaces(5) \o <<"2">>, TwoCodesV2),
           EndLine>>
    [] name = "h2badCount" ->
         <<VerLine(<<"2", ".", "1", "1">>), TypesLine(Spaces(5) \o <<"x">>, TwoCodesV2),
           EndLine>>
    [] name = "h2fewCodes" ->
         <<VerLine(<<"2", ".", "1", "1">>), TypesLine(Spaces(5) \o <<"3">>, TwoCodesV2),
           EndLine>>
    [] name = "h2noObs" -> <<VerLine(<<"2", ".", "1", "1">>), EndLine>>
    [] name = "noVersion" ->
         <<SysLine("G", <<" ", " ", "2">>, <<C1C, L1C>>), EndLine>>
    [] name = "noEnd" ->
         <<VerLine(<<"3", ".", "0", "4">>), SysLine("G", <<" ", " ", "2">>, <<C1C, L1C>>)>>
    [] name = "noEndBadObs" ->
         <<VerLine(<<"3", ".", "0", "4">>), SysLine("G", <<" ", " ", "x">>, <<C1C>>)>>
    [] name = "major1" -> <<VerLine(<<"1", ".", "0", "0">>), EndLine>>
    [] name = "major1noEnd" -> <<VerLine(<<"1", ".", "0", "0">>), NoteLine>>
    [] name = "blankVersion" -> <<HLine(<<>>, L_VER), EndLine>>
    [] name = "blankVersionNoEnd" -> <<HLine(<<>>, L_VER)>>
    [] name = "empty" -> <<>>

HeaderNames ==
  {"h3", "h3notes", "h3noObs", "h3cont", "h3noCont", "h3badCount", "h3negCount",
   "h2", "h2badCount", "h2fewCodes", "h2noObs", "noVersion", "noEnd", "noEndBadObs",
   "major1", "major1noEnd", "blankVersion", "blankVersionNoEnd", "empty"}

TIME_V3 == <<"2", "0", "2", "0", " ", "0", "1", " ", "0", "1", " ", "0", "0", " ", "0", "0",
      " ", " ", "0", ".", "0", "0", "0", "0", "0", "0", "0">>

TIME_V1 == <<"2", "0", " ", " ", "1", " ", " ", "1", " ", " ", "0", " ", " ", "0", " ", " ",
      "0", ".", "0", "0", "0", "0", "0", "0", "0">>

\* a CRINEX 3 initialization line: flag at byte 32, count at bytes 33-35,
\* satellite list from byte 42
EpochV3(flag, count, sats) ==
  <<">", " ">> \o TIME_V3 \o Spaces(2) \o <<flag>> \o count \o Spaces(6) \o sats

\* a CRINEX 1 initialization line: flag at byte 29, count at bytes 30-32,
\* satellite list from byte 33
EpochV1(flag, count, sats) ==
  <<"&">> \o TIME_V1 \o Spaces(2) \o <<flag>> \o count \o sats

G01 == <<"G", "0", "1">>

G02 == <<"G", "0", "2">>

One == <<" ", " ", "1">>

Two == <<" ", " ", "2">>

\* an epoch line without an initialization flag: a patch of the seconds
DiffLine == Spaces(19) \o <<"3", "0">>

\* the lines of a data block, by name
BlockLines(name) ==
  CASE name = "init" ->
         <<EpochV3("0", One, G01), <<>>, <<"3", "&", "1", "0", "0", " ", "2", "&", "2", "0",
               "0", " ", "1", "2", "3", "4">>>>
    [] name = "diff" ->
         <<DiffLine, <<"1", "&", "7">>, <<"5", " ", "-", "3", " ", "&", " ", " ", "9">>>>
    [] name = "event" ->
         <<EpochV3("4", Two, <<>>), <<"E", "V", "E", "N", "T", " ", "A">>, <<"E", "V", "E",
               "N", "T", " ", "B">>>>
    [] name = "eventAmp" ->
         <<EpochV1("5", One, <<>>), <<"E", "V", "E", "N", "T", " ", "C">>>>
    [] name = "eventShort" ->
         <<EpochV3("2", Two, <<>>), <<"E", "V", "E", "N", "T", " ", "D">>>>
    [] name = "initBadCount" ->
         <<EpochV3("4", <<" ", " ", "x">>, G02), <<"2", "&", "3">>, <<"2", "&", "7", " ",
               "2", "&", "8", " ", "5", "6">>>>
    [] name = "v1flags" ->
         <<EpochV1("0", One, G01), <<>>, <<" ", " ", "1", "2", " ", "4">>>>
    [] name = "v1diff" ->
         <<DiffLine, <<>>, <<"3", "&", "1", "0", "0", " ", "3", "&", "2", "0", "0">>>>
    [] name = "v1event" ->
         <<EpochV1("4", Two, <<>>), <<"E", "V", "E", "N", "T", " ", "A">>, <<"E", "V", "E",
               "N", "T", " ", "B">>>>
    [] name = "v1eventNeg" ->
         <<EpochV1("3", <<" ", "-", "1">>, <<>>)>>
    [] name = "v1init" ->
         <<EpochV1("1", One, G02), <<>>, <<"3", "&", "1", "0", "0", " ", "2", "&", "2", "0",
               "0", " ", "1", "2", "3", "4">>>>
    [] name = "initOne" ->
         <<EpochV3("0", One, G01), <<>>, <<"3", "&", "1", "2", "3", "4", "5", "6">>>>
    [] name = "initBlank" ->
         <<EpochV3("0", One, G01), <<>>, <<"3", "&", "1", "2", "3", "4", "5", "6", " ">>>>
    [] name = "initClock" ->
         <<EpochV3("0", One, G02), <<"2", "&", "5", " ", "1", "2">>,
           <<"3", "&", "1", "0", "0", " ", "2", "&", "2", "0", "0", " ", "1", "2", "3", "4">>>>
    [] name = "initR" ->
         <<EpochV3("0", One, <<"R", "0", "1">>), <<>>,
           <<"3", "&", "1", "0", "0", " ", "3", "&", "2", "0", "0", " ", "3", "&", "7", " ",
             " ", "5">>>>
    [] name = "initX" ->
         <<EpochV3("0", Two, <<"X", "0", "1">> \o G01), <<>>,
           <<"3", "&", "1", "0", "0", " ", "2", "&", "2", "0", "0", " ", "1", "2", "3", "4">>>>
    [] name = "junkInit" ->
         <<<<"j", "u", "n", "k">> \o EpochV3("0", One, G01), <<>>,
           <<"3", "&", "1", "0", "0", " ", "2", "&", "2", "0", "0", " ", "1", "2", "3", "4">>>>
    [] name = "junk" -> <<<<"j", "u", "n", "k">>>>
    [] name = "initRE" ->
         <<EpochV3("0", Two, <<"R", "0", "1", "E", "0", "1">>), <<>>,
           <<"3", "&", "1", "0", "0", " ", "3", "&", "2", "0", "0", " ", "3", "&", "7", " ",
             " ", "5">>,
           <<"3", "&", "5", " ", "3", "&", "6", " ">>>>
    [] name = "diffRE" ->
         <<DiffLine, <<>>, <<"1", " ", "2">>, <<"4", " ", " ", " ", "7">>>>
    [] name = "initSp" ->
         <<EpochV3("0", <<" ", " ", "3">>, <<"G", "0", " ">> \o G02 \o <<"Q", "0", "7">>),
           <<>>,
           <<"3", "&", "1", "0", "0", " ", "2", "&", "2", "0", "0", " ", "1", "2", "3", "4">>>>
    [] name = "initX2" ->
         <<EpochV3("0", Two, <<"X", "0", "1">> \o G01), <<>>,
           <<"3", "&", "1", "0", "0", " ", "2", "&", "2", "0", "0", " ", "1", "2", "3", "4">>,
           <<"3", "&", "7", " ", "2", "&", "8">>>>
    [] name = "diffMiss" ->
         <<DiffLine, <<>>, <<" ", "-", "3">>>>
    [] name = "diffShort" ->
         <<DiffLine, <<>>, <<"5">>>>
    [] name = "diffFlag1" ->
         <<DiffLine, <<>>, <<"5", " ", "-", "3", " ", "7">>>>
    [] name = "diffFlagLong" ->
         <<DiffLine, <<>>, <<"5", " ", "-", "3", " ", "&", "6", "7", "&", "8", "9">>>>
    [] name = "v1R" ->
         <<EpochV1("0", One, <<"R", "0", "1">>), <<>>, <<" ", " ", "1", "2", " ", "4">>>>
    [] name = "initClk" ->
         <<EpochV3("0", One, G01), <<"2", "&", "5">>,
           <<"3", "&", "1", "0", "0", " ", "2", "&", "2", "0", "0", " ", "1", "2", "3", "4">>>>
    [] name = "initUpd" ->
         <<EpochV3("0", One, G01), <<"3">>,
           <<"3", "&", "1", "0", "0", " ", "2", "&", "2", "0", "0", " ", "1", "2", "3", "4">>>>

BlocksV3 == {"init", "diff", "event", "eventAmp", "eventShort", "initBadCount"}

BlocksV1 == {"v1flags", "v1diff", "v1event", "v1eventNeg", "v1init"}

RECURSIVE BodyLines(_)
BodyLines(body) ==
  IF Len(body) = 0 THEN <<>> ELSE BlockLines(Head(body)) \o BodyLines(Tail(body))

MaxBlocks == 3

\* an input file: its first lines, its header and its data blocks, by name
FileLines(fl) == HeadLines(fl.head) \o HeaderLines(fl.hdr) \o BodyLines(fl.body)

Files ==
  {[head |-> h, hdr |-> "h3", body |-> <<"init">>] : h \in OtherHeads}
  \cup {[head |-> h, hdr |-> x, body |-> <<"init">>] : h \in GoodHeads, x \in HeaderNames}
  \cup {[head |-> "crx3.0", hdr |-> "h3", body |-> b] : b \in SeqsUpTo(BlocksV3, MaxBlocks)}
  \cup {[head |-> "crx1.0", hdr |-> "h2", body |-> b] : b \in SeqsUpTo(BlocksV1, MaxBlocks)}

-----------------------------------------------------------------------------
(* SpecEmit: the RINEX emitters called on values, epoch buffers and        *)
(* satellite records                                                       *)

MaxIntDigits == 12

FracDigits == {"0", "1", "9"}

\* integer parts of up to n digits: none, all nines, a power of ten, all ones
IntParts(n) ==
  {<<>>}
  \cup {[k \in 1..m |-> "9"] : m \in 1..n}
  \cup {[k \in 1..m |-> IF k = 1 THEN "1" ELSE "0"] : m \in 1..n}
  \cup {[k \in 1..m |-> "1"] : m \in 1..n}

Magnitudes ==
  {StripZeros(ip \o fr) : ip \in IntParts(MaxIntDigits), fr \in [1..3 -> FracDigits]}
  \cup {NatDigits(1234567), NatDigits(123456)}

\* int64 arguments of intToRinexDataBytes: thousandths, of either sign
ValueInputs ==
  {[neg |-> sg, digs |-> m] : sg \in BOOLEAN, m \in Magnitudes}
  \ {[neg |-> TRUE, digs |-> <<"0">>]}

MaxSats == 26

\* the k-th satellite ID of an epoch line: G01, G02, ...
SatId(k) == <<"G">> \o ZeroPadLeft(NatDigits(k), 2)

RECURSIVE SatIds(_, _)
\* the IDs of satellites from..to, three bytes each
SatIds(from, to) == IF from > to THEN <<>> ELSE SatId(from) \o SatIds(from + 1, to)

\* the three-byte count field of an epoch line
CountField(n) == Spaces(3 - Len(NatDigits(n))) \o NatDigits(n)

\* a CRINEX 1 epoch buffer that reports n satellites and lists ids of them,
\* followed by tail blanked bytes of an earlier, longer list
EpochBufV1(n, ids, tail) == EpochV1("0", CountField(n), SatIds(1, ids)) \o Spaces(tail)

\* the clock offsets passed: NaN or a value in nanoseconds
ClockInputs == {[nan |-> TRUE, ref |-> 0], [nan |-> FALSE, ref |-> 123456789]}

EpochV2Inputs ==
  {[kind |-> "epochV2", buf |-> EpochBufV1(n, n - short, tail), n |-> n, clk |-> c,
    slack |-> sl] :
     n \in 1..MaxSats, short \in {0, 1}, tail \in {0, 3}, c \in ClockInputs,
     sl \in BOOLEAN}

MaxObs == 11

ObsMasks == {"none", "all", "odd", "flags"}

\* observable k (1-based) of a satellite record: the value k.00k, missing
\* or not, with blank or set LLI and SS bytes
ObsDiffRecord(k, mask) ==
  [MaxDiff |-> 3, refData |-> 1001 * k, diffData |-> <<>>,
   missing |-> (mask = "all" \/ (mask = "odd" /\ k % 2 = 1))]

\* a satDataRecord of n observables after its line of an epoch was decoded
SatRecord(n, mask) ==
  [obsCodes |-> [k \in 1..n |-> <<"L", Digits[(k % 10) + 1]>>],
   data |-> [k \in 1..n |-> ObsDiffRecord(k, mask)],
   lli  |-> [k \in 1..n |-> IF mask = "flags" THEN <<"1">> ELSE <<" ">>],
   ss   |-> [k \in 1..n |-> IF mask = "flags" THEN <<"5">> ELSE <<" ">>]]

\* the satellite list and the map of an epoch of one or two satellites
DataV1Inputs ==
  {[kind |-> "dataV1", satList |-> <<G01>>,
    data |-> MapPut(EmptyMap, G01, SatRecord(n, m))] : n \in 1..MaxObs, m \in ObsMasks}
  \cup
  {[kind |-> "dataV1", satList |-> <<G01, G02>>,
    data |-> MapPut(MapPut(EmptyMap, G01, SatRecord(n, m)),
                    G02, SatRecord(MaxObs + 1 - n, "flags"))] :
     n \in 1..MaxObs, m \in ObsMasks}

\* the calls made: an emitter and its argument
EmitInputs ==
  {[kind |-> "value", x |-> x] : x \in ValueInputs}
  \cup EpochV2Inputs \cup DataV1Inputs

EmitInit ==
  /\ fop = "none" /\ fin \in EmitInputs /\ fout = <<>> /\ fwarn = FALSE
  /\ DiffIdle /\ StrIdle /\ ReaderIdle /\ ScannerIdle

\* intToRinexDataBytes(n)
FormatValue ==
  /\ fop = "none" /\ fin.kind = "value"
  /\ fop' = "value"
  /\ fout' = intToRinexDataNumeral(fin.x)
  /\ fwarn' = Overflows(fin.x)
  /\ UNCHANGED <<fin, diffVars, strVars, rdVars, scVars>>

\* the state after StringRINEXV2 gave r
AfterEpochV2(r) ==
  /\ fop' = IF r.panic THEN "panic" ELSE "epochV2"
  /\ fout' = r.bytes
  /\ fwarn' = FALSE

\* epochRec.StringRINEXV2(clk)
FormatEpochV2 ==
  /\ fop = "none" /\ fin.kind = "epochV2"
  /\ AfterEpochV2(StringRINEXV2(fin.buf, fin.clk.nan, fin.clk.ref, fin.slack))
  /\ UNCHANGED <<fin, diffVars, strVars, rdVars, scVars>>

\* the state after the data block gave r
AfterDataV1(r) ==
  /\ fop' = IF r.panic THEN "panic" ELSE "dataV1"
  /\ fout' = r.bytes
  /\ fwarn' = FALSE

\* the "1.0" branch of DataAsBytes on satList and data
FormatDataV1 ==
  /\ fop = "none" /\ fin.kind = "dataV1"
  /\ AfterDataV1(DataLinesV1(fin.satList, fin.data, 0))
  /\ UNCHANGED <<fin, diffVars, strVars, rdVars, scVars>>

EmitNext == FormatValue \/ FormatEpochV2 \/ FormatDataV1

SpecEmit == EmitInit /\ [][EmitNext]_vars

-----------------------------------------------------------------------------
(* SpecScanner: NewScanner, ScanEpoch and the emitters of the Scanner on   *)
(* an input file, in both revisions                                        *)

MaxScanBlocks == 3

\* the calls of ScanEpoch on one file
MaxCalls == 5

\* the lines a truncated file has lost
MaxCut == 2

Revisions == {REV_READER, REV_PART}

ScanBlocksV3 == {"init", "diff", "event", "initOne"}

ScanBlocksV1 == {"v1flags", "v1diff", "v1event", "v1init"}

OneObsBodies == {<<"initOne">>, <<"initBlank">>, <<"initOne", "diff">>}

ExtraBodies ==
  {<<"initClock", "diff">>, <<"initR">>, <<"initX">>, <<"junkInit">>,
   <<"init", "junk", "init">>, <<"diff">>, <<"initBlank">>, <<"eventShort">>,
   <<"initR", "junk", "initX">>, <<"initRE", "diffRE">>, <<"init", "initRE">>,
   <<"initSp", "initX">>, <<"initX2", "init">>}
  \cup {<<"init", a, b>> : a, b \in {"diff", "diffMiss", "diffShort"}}
  \cup {<<"init", "diffFlag1", "diffFlagLong">>, <<"init", "diffFlagLong", "diffFlag1">>}
  \cup {<<"initClk", "initUpd">>, <<"initClk", "init">>, <<"initClk", "initClk">>,
        <<"initUpd">>}

BadHeaders == {"noEnd", "noVersion", "h3badCount", "major1", "empty"}

BadHeads == {"crx3.1", "badMagic3.0", "noLines"}

\* bodies of CRINEX 1.0 under a RINEX 3 header that declares only G
MixedBodies == {<<"v1R">>, <<"v1R", "v1flags">>, <<"v1flags", "v1R", "v1event">>}

CutBodies == {<<"init">>, <<"init", "diff">>, <<"initX">>}

ScanFile(h, x, b, c) == [head |-> h, hdr |-> x, body |-> b, cut |-> c]

ScanFiles ==
  {ScanFile("crx3.0", "h3", b, 0) : b \in SeqsUpTo(ScanBlocksV3, MaxScanBlocks)}
  \cup {ScanFile("crx3.0", "h3one", b, 0) : b \in OneObsBodies}
  \cup {ScanFile("crx3.0", "h3", b, 0) : b \in ExtraBodies}
  \cup {ScanFile("crx3.0", x, <<"init">>, 0) : x \in BadHeaders}
  \cup {ScanFile(h, "h3", <<"init">>, 0) : h \in BadHeads}
  \cup {ScanFile("crx1.0", "h2", b, 0) : b \in SeqsUpTo(ScanBlocksV1, MaxScanBlocks - 1)}
  \cup {ScanFile("crx3.0", "h3", b, c) : b \in CutBodies, c \in 1..MaxCut}
  \cup {ScanFile("crx1.0", "h2", <<"v1flags">>, c) : c \in 1..MaxCut}
  \cup {ScanFile("crx1.0", "h3", b, 0) : b \in MixedBodies}

\* the lines of the file fl: a truncated file lacks its last lines
ScanLines(fl) == SubSeq(FileLines(fl), 1, Len(FileLines(fl)) - fl.cut)

ScannerInit ==
  /\ sfile \in ScanFiles
  /\ sc \in {[ScInit EXCEPT !.rev = r] : r \in Revisions}
  /\ scPrev = sc
  /\ scRet = "none"
  /\ scLog = NoLog
  /\ loop = LoopIdle
  /\ DiffIdle /\ StrIdle /\ ReaderIdle /\ EmitIdle

\* s, err := NewScanner(r)
CallNewScanner ==
  /\ sc.pc = "start"
  /\ sc' = NewScanner(sc, setup(ScanLines(sfile)))
  /\ scPrev' = sc
  /\ scRet' = IF setup(ScanLines(sfile)).err = NoErr THEN "new" ELSE "setupError"
  /\ UNCHANGED <<sfile, scLog, loop, diffVars, strVars, rdVars, emVars>>

\* the caller's record after a ScanEpoch that left r
LogScan(log, r) ==
  [calls |-> log.calls + 1,
   trues |-> IF r.ret = "true" THEN log.trues + 1 ELSE log.trues,
   failed |-> log.failed \/ (r.ret = "false" /\ r.s.err # NoErr),
   firstErr |-> IF ~log.failed /\ r.ret = "false" THEN r.s.err ELSE log.firstErr,
   outOf |-> "none", out |-> <<>>, pulled |-> log.pulled]

AfterScanEpoch(r) ==
  /\ sc' = [r.s EXCEPT !.pc = IF r.ret = "panic" THEN "panicked" ELSE "ready"]
  /\ scPrev' = sc
  /\ scRet' = r.ret
  /\ scLog' = LogScan(scLog, r)

\* ok := s.ScanEpoch()
CallScanEpoch ==
  /\ sc.pc = "ready"
  /\ scLog.calls < MaxCalls
  /\ AfterScanEpoch(ScanEpoch(ScanLines(sfile), sc))
  /\ UNCHANGED <<sfile, loop, diffVars, strVars, rdVars, emVars>>

\* the bytes e of an emitter reach the caller
AfterEmitBytes(kind, e) ==
  /\ scLog' = [scLog EXCEPT !.outOf = kind, !.out = e.bytes]
  /\ scRet' = IF e.panic THEN "panic" ELSE scRet
  /\ sc' = [sc EXCEPT !.pc = IF e.panic THEN "panicked" ELSE @]
  /\ UNCHANGED <<sfile, scPrev, loop, diffVars, strVars, rdVars, emVars>>

\* s.EpochAsBytes() after a ScanEpoch that returned true
CallEpochAsBytes ==
  /\ sc.pc = "ready" /\ scRet = "true" /\ scLog.outOf = "none"
  /\ \E slack \in BOOLEAN : AfterEmitBytes("epoch", EpochAsBytes(sc, slack))

\* s.DataAsBytes() after a ScanEpoch that returned true
CallDataAsBytes ==
  /\ sc.pc = "ready" /\ scRet = "true" /\ scLog.outOf = "none"
  /\ AfterEmitBytes("data", DataAsBytes(sc))

ScannerNext == CallNewScanner \/ CallScanEpoch \/ CallEpochAsBytes \/ CallDataAsBytes

SpecScanner == ScannerInit /\ [][ScannerNext]_vars

-----------------------------------------------------------------------------
(* SpecRetry: ScanEpoch step by step, one step for each line it reads and  *)
(* for each jump to RETRY_SCAN_EPOCH                                       *)

\* a Scan that reads nothing
ScanStay(s) == s

\* s.Scan() returned true: one more line is read
ScanLine(s) == [s EXCEPT !.pos = s.pos + 1]

\* ScanEpoch returns ret and leaves the Scanner s
LoopReturn(s, ret) ==
  /\ sc' = [s EXCEPT !.pc = IF ret = "panic" THEN "panicked" ELSE "ready"]
  /\ scPrev' = loop.at
  /\ scRet' = ret
  /\ scLog' = LogScan(scLog, Scanned(s, ret))
  /\ loop' = LoopIdle

\* ScanEpoch goes on at pc with the Scanner s
LoopGoto(s, pc, epochStr, skip, err) ==
  /\ sc' = s
  /\ loop' = [loop EXCEPT !.pc = pc, !.epochStr = epochStr, !.skip = skip, !.err = err]
  /\ UNCHANGED <<scPrev, scRet, scLog>>

\* the header parse of the call gave h
LoopParsed(h) ==
  IF h.panic \/ h.err # NoErr
  THEN /\ sc' = [ScanEpochParsed(ScanLines(sfile), sc, h).s EXCEPT
                   !.pc = IF h.panic THEN "panicked" ELSE "ready"]
       /\ scPrev' = sc
       /\ scRet' = ScanEpochParsed(ScanLines(sfile), sc, h).ret
       /\ scLog' = LogScan(scLog, ScanEpochParsed(ScanLines(sfile), sc, h))
       /\ loop' = LoopIdle
  ELSE /\ sc' = ParseHeader(sc, h)
       /\ loop' = [LoopIdle EXCEPT !.pc = "scan", !.at = sc]
       /\ UNCHANGED <<scPrev, scRet, scLog>>

\* ok := s.ScanEpoch(): "The header must be scanned before the data block"
RetryHeader ==
  /\ sc.pc = "ready" /\ loop.pc = "idle" /\ scLog.calls < MaxCalls
  /\ sc.headerNil
  /\ LoopParsed(scanHeader(ScanLines(sfile), sc.pos))
  /\ UNCHANGED <<sfile, diffVars, strVars, rdVars, emVars>>

\* "scan next data block and update data": the first s.Scan() of the call
RetryFirstLine ==
  /\ sc.pc = "ready" /\ scLog.calls < MaxCalls
  /\ loop.pc = "scan" \/ (loop.pc = "idle" /\ ~sc.headerNil)
  /\ IF sc.pos >= Len(ScanLines(sfile))
     THEN /\ sc' = [sc EXCEPT !.err = NoErr]
          /\ scPrev' = IF loop.pc = "idle" THEN sc ELSE loop.at
          /\ scRet' = "false"
          /\ scLog' = LogScan(scLog, Scanned([sc EXCEPT !.err = NoErr], "false"))
          /\ loop' = LoopIdle
     ELSE /\ sc' = ScanLine(sc)
          /\ loop' = [LoopIdle EXCEPT !.pc = "check",
                                      !.epochStr = ScanLines(sfile)[sc.pos + 1],
                                      !.at = IF loop.pc = "idle" THEN sc ELSE loop.at]
          /\ UNCHANGED <<scPrev, scRet, scLog>>
  /\ UNCHANGED <<sfile, diffVars, strVars, rdVars, emVars>>

\* the scan attempt ended with r
LoopAttempted(r) ==
  IF r.panic THEN LoopReturn(r.s, "panic")
  ELSE IF r.err = EOF \/ r.err = NoErr
  THEN LoopReturn([r.s EXCEPT !.eof = (r.err = EOF)], "true")
  ELSE LoopGoto(r.s, "failed", loop.epochStr, 0, r.err)

\* checkInitialized(epochStr) gave ci
LoopChecked(ci) ==
  IF ci.panic THEN LoopReturn(sc, "panic")
  ELSE IF ci.err # NoErr
  THEN LoopGoto(sc, "failed", loop.epochStr, 0, Err("ErrInvalidEpochStr", ci.err.msg))
  ELSE IF SkipsEvent(sc.rev, ci)
  THEN LoopGoto(sc, "skip", loop.epochStr, Max(ci.numSkip, 0), NoErr)
  ELSE LoopAttempted(scanEpochUpdated(ScanLines(sfile),
                       updateEpochRecStore(sc, loop.epochStr, ci.init)))

\* RETRY_SCAN_EPOCH: scanEpoch(epochStr) up to the skip of a special event,
\* or to its end
RetryCheck ==
  /\ sc.pc = "ready" /\ loop.pc = "check"
  /\ LoopChecked(checkInitialized(sc.rev, loop.epochStr))
  /\ UNCHANGED <<sfile, diffVars, strVars, rdVars, emVars>>

\* "special event found, skip numSkip lines": one s.Scan()
RetrySkip ==
  /\ sc.pc = "ready" /\ loop.pc = "skip" /\ loop.skip > 0
  /\ IF sc.pos >= Len(ScanLines(sfile))
     THEN LoopReturn([sc EXCEPT !.eof = TRUE], "true")
     ELSE LoopGoto(ScanLine(sc), "skip", loop.epochStr, loop.skip - 1, NoErr)
  /\ UNCHANGED <<sfile, diffVars, strVars, rdVars, emVars>>

\* "get new epochStr, and continue to check epochStr"
RetryNextLine ==
  /\ sc.pc = "ready" /\ loop.pc = "skip" /\ loop.skip = 0
  /\ IF sc.pos >= Len(ScanLines(sfile))
     THEN LoopReturn([sc EXCEPT !.eof = TRUE], "true")
     ELSE IF sc.rev = REV_READER /\ ~IsInitLine(ScanLines(sfile)[sc.pos + 1])
     THEN LoopGoto(ScanLine(sc), "failed", loop.epochStr, 0,
                   Err("ErrInvalidEpochStr", "not initialized after a special event"))
     ELSE LoopGoto(ScanLine(sc), "check", ScanLines(sfile)[sc.pos + 1], 0, NoErr)
  /\ UNCHANGED <<sfile, diffVars, strVars, rdVars, emVars>>

\* i := strings.Index(epochStr, ">"); i > 0
Truncates(epochStr) == IndexInit(epochStr) > 0

\* the scan attempt failed: retry from a '>' inside the line, or go and
\* search for the next initialization flag
RetryRecover ==
  /\ sc.pc = "ready" /\ loop.pc = "failed"
  /\ IF Truncates(loop.epochStr)
     THEN LoopGoto(Retrying(Warn(Failed(sc), "epochrec modified"),
                            From(loop.epochStr, IndexInit(loop.epochStr))),
                   "check", From(loop.epochStr, IndexInit(loop.epochStr)), 0, NoErr)
     ELSE LoopGoto(Failed(sc), "seek", loop.epochStr, 0, loop.err)
  /\ UNCHANGED <<sfile, diffVars, strVars, rdVars, emVars>>

\* "Search for the next initialization flag": one s.Scan()
RetrySeek ==
  /\ sc.pc = "ready" /\ loop.pc = "seek"
  /\ IF sc.pos >= Len(ScanLines(sfile))
     THEN LoopReturn([sc EXCEPT !.err = loop.err], "false")
     ELSE IF IsInitLine(ScanLines(sfile)[sc.pos + 1])
     THEN LoopGoto(ScanLine(Retrying(sc, ScanLines(sfile)[sc.pos + 1])),
                   "check", ScanLines(sfile)[sc.pos + 1], 0, NoErr)
     ELSE LoopGoto(ScanLine(sc), "seek", loop.epochStr, 0, loop.err)
  /\ UNCHANGED <<sfile, diffVars, strVars, rdVars, emVars>>

\* the steps of a ScanEpoch call that has begun
RetrySteps == RetryFirstLine \/ RetryCheck \/ RetrySkip \/ RetryNextLine
                \/ RetryRecover \/ RetrySeek

RetryNext == CallNewScanner \/ RetryHeader \/ RetrySteps

\* the steps of a call other than RetryCheck
RetryLineSteps == RetryFirstLine \/ RetrySkip \/ RetryNextLine \/ RetryRecover \/ RetrySeek

\* a call that has begun runs on: the caller may stop calling, the call
\* itself does not stop. The second conjunct is WF_vars(RetryCheck) with
\* ENABLED <<RetryCheck>>_vars written as loop.pc = "check", the guard of the
\* action, which always changes loop
RetryFair ==
  /\ WF_vars(loop.pc # "idle" /\ RetryLineSteps)
  /\ ([]<>(loop.pc # "check") \/ []<><<RetryCheck>>_vars)

SpecRetry == ScannerInit /\ [][RetryNext]_vars /\ RetryFair

-----------------------------------------------------------------------------
(* SpecReader: NewReader on an input file                                  *)

ReaderInit ==
  /\ file \in Files
  /\ rd = RdInit /\ rdPrev = RdInit /\ lastOp = "none"
  /\ DiffIdle /\ StrIdle /\ EmitIdle /\ ScannerIdle

\* NewReader after s, ver, _, err := setup(r) returned r
AfterSetup(rdv, r) ==
  [rdv EXCEPT !.ver = r.ver, !.lines = r.lines, !.err = r.err, !.pos = r.pos,
              !.pc = IF r.err = NoErr THEN "header" ELSE "failed"]

\* s, ver, _, err := setup(r)
Setup ==
  /\ rd.pc = "start"
  /\ rd' = AfterSetup(rd, setup(FileLines(file)))
  /\ rdPrev' = rd
  /\ lastOp' = "setup"
  /\ UNCHANGED <<file, diffVars, strVars, emVars, scVars>>

\* NewReader after obsTypes, headers, _, err := scanHeader(s) returned r
AfterScanHeader(rdv, r) ==
  [rdv EXCEPT !.obsTypes = r.obsTypes, !.hdr = r.h, !.lines = r.lines,
              !.err = r.err, !.pos = r.pos,
              !.out = IF r.err = NoErr /\ ~r.panic THEN r.h ELSE <<>>,
              !.pc = IF r.panic THEN "panic"
                     ELSE IF r.err = NoErr THEN "epochs" ELSE "failed"]

\* obsTypes, headers, _, err := scanHeader(s); buf = append(buf, headers...)
ScanHeader ==
  /\ rd.pc = "header"
  /\ rd' = AfterScanHeader(rd, scanHeader(FileLines(file), rd.pos))
  /\ rdPrev' = rd
  /\ lastOp' = "header"
  /\ UNCHANGED <<file, diffVars, strVars, emVars, scVars>>

\* one iteration of for s.Scan() { ... }
ReadEpoch ==
  /\ rd.pc = "epochs"
  /\ rd.pos < Len(FileLines(file))
  /\ \E slack \in BOOLEAN : rd' = ReaderIteration(FileLines(file), rd, slack)
  /\ rdPrev' = rd
  /\ lastOp' = "epoch"
  /\ UNCHANGED <<file, diffVars, strVars, emVars, scVars>>

\* s.Scan() is false: return bytes.NewReader(buf), nil
ReaderReturn ==
  /\ rd.pc = "epochs"
  /\ rd.pos >= Len(FileLines(file))
  /\ rd' = [rd EXCEPT !.pc = "done"]
  /\ rdPrev' = rd
  /\ lastOp' = "return"
  /\ UNCHANGED <<file, diffVars, strVars, emVars, scVars>>

ReaderNext == Setup \/ ScanHeader \/ ReadEpoch \/ ReaderReturn

SpecReader == ReaderInit /\ [][ReaderNext]_vars

-----------------------------------------------------------------------------
(* SpecAgree: NewReader and the loop of the Scanner usage example on the   *)
(* same well-formed file                                                   *)

\* well-formed bodies: the first epoch and the epoch after a special event
\* are initialization lines, every satellite has its line
AgreeBodiesV3 ==
  {<<"init">>, <<"init", "diff">>, <<"init", "diff", "diff">>, <<"initOne", "diff">>,
   <<"initClk", "diff">>, <<"initClk", "init">>, <<"init", "event", "init">>,
   <<"event", "init">>, <<"init", "diff", "event">>}

AgreeBodiesV1 ==
  {<<"v1flags">>, <<"v1flags", "v1diff">>, <<"v1init", "v1diff">>,
   <<"v1flags", "v1event", "v1init">>}

AgreeFiles ==
  {ScanFile("crx3.0", "h3", b, 0) : b \in AgreeBodiesV3}
  \cup {ScanFile("crx1.0", "h2", b, 0) : b \in AgreeBodiesV1}

AgreeInit ==
  /\ sfile \in AgreeFiles
  /\ file = [head |-> sfile.head, hdr |-> sfile.hdr, body |-> sfile.body]
  /\ rd = RdInit /\ rdPrev = RdInit /\ lastOp = "none"
  /\ sc \in {[ScInit EXCEPT !.rev = r] : r \in Revisions}
  /\ scPrev = sc
  /\ scRet = "none"
  /\ scLog = NoLog
  /\ loop = LoopIdle
  /\ DiffIdle /\ StrIdle /\ EmitIdle

\* for s.ScanEpoch() { ... }: the condition of the loop
PullScanEpoch ==
  /\ scRet = "true" => scLog.outOf = "both"
  /\ CallScanEpoch

\* the body of the loop after EpochAsBytes gave e and DataAsBytes gave d
AfterPull(e, d) ==
  /\ scLog' = [scLog EXCEPT !.outOf = "both", !.out = e.bytes \o d.bytes,
                            !.pulled = @ \o e.bytes \o d.bytes]
  /\ scRet' = IF e.panic \/ d.panic THEN "panic" ELSE scRet
  /\ sc' = [sc EXCEPT !.pc = IF e.panic \/ d.panic THEN "panicked" ELSE @]
  /\ UNCHANGED <<sfile, scPrev, loop, diffVars, strVars, rdVars, emVars>>

\* fmt.Fprintf(w, "%s", s.EpochAsBytes()); fmt.Fprintf(w, "%s", s.DataAsBytes())
PullEpoch ==
  /\ sc.pc = "ready" /\ scRet = "true" /\ scLog.outOf = "none"
  /\ \E slack \in BOOLEAN : AfterPull(EpochAsBytes(sc, slack), DataAsBytes(sc))

AgreeNext ==
  \/ Setup \/ ScanHeader \/ ReadEpoch \/ ReaderReturn
  \/ CallNewScanner \/ PullScanEpoch \/ PullEpoch

SpecAgree == AgreeInit /\ [][AgreeNext]_vars

-----------------------------------------------------------------------------
(* Claims                                                                  *)

\* C1: in an encoding session of order m in 1..5, after the initialization
\* token m&v_1 and after every Hatanaka token of v_2..v_i, Decode returned no
\* error and refData is exactly v_i, the last raw value encoded.
C1_ReconstructionIdentity ==
  raw # <<>> =>
    /\ ~drPanic
    /\ drErr = "nil"
    /\ rec.MaxDiff = encM
    /\ ~rec.missing
    /\ rec.refData = raw[Len(raw)]

\* an order-5 session that has passed into its steady state (tokens of order
\* 5 only) on values that are not constant
C1_Witness ==
  /\ encM = 5
  /\ Len(raw) = 7
  /\ raw[7] # raw[6]
  /\ raw[2] # raw[1]
  /\ rec.refData = raw[7]

\* C2: once a record has accepted an initialization token, after any further
\* tokens the difference history holds between 0 and MaxDiff values.
C2_DiffDataBounded ==
  drInit => (0 <= Len(rec.diffData) /\ Len(rec.diffData) <= rec.MaxDiff)

\* a record whose history is full and has been collapsed at least once
C2_Witness ==
  /\ drInit
  /\ rec.MaxDiff >= 1
  /\ drUpd > rec.MaxDiff
  /\ Len(rec.diffData) = rec.MaxDiff

\* C3: the text-overlay rule of strRecord.Decode, position by position: an
\* empty patch changes nothing; under a patch byte ' ' the byte is the old
\* one (the zero byte of the growth where there was none), under '&' it is a
\* space, under any other byte it is that byte; positions past the patch keep
\* their byte; the length is the larger of the old length and the patch's.
C3_OverlayRule ==
  sop = "decode" =>
    IF Len(spatch) = 0 THEN sbuf = sprev
    ELSE /\ Len(sbuf) = Max(Len(sprev), Len(spatch))
         /\ \A i \in 1..Len(sbuf) :
              IF i > Len(spatch) THEN sbuf[i] = sprev[i]
              ELSE IF spatch[i] = " "
                   THEN sbuf[i] = (IF i <= Len(sprev) THEN sprev[i] ELSE NUL)
              ELSE IF spatch[i] = "&" THEN sbuf[i] = " "
              ELSE sbuf[i] = spatch[i]

\* a patch shorter than the buffer that keeps, clears and overwrites a byte
C3_Witness ==
  /\ sop = "decode"
  /\ Len(sprev) = 3
  /\ spatch = <<" ", "&">>
  /\ sprev[1] = ">" /\ sprev[2] = "a" /\ sprev[3] = "a"
  /\ sbuf = <<">", " ", "a">>

-----------------------------------------------------------------------------
(* Claims on the one-shot reader                                           *)

\* the lines of the input
InputLines == FileLines(file)

\* the first line of the input ("" when there is none)
FirstLine == IF Len(InputLines) > 0 THEN InputLines[1] ELSE <<>>

\* the first line is shorter than 40 bytes or its bytes 21-40 are not the magic
BadMagicLine == Len(FirstLine) < 40 \/ SubSeq(FirstLine, 21, 40) # MAGIC

\* the trimmed bytes 1-20 of the first line
VersionField == TrimSpace(SubSeq(FirstLine, 1, 20))

\* C4: setup fails with ErrBadMagic whenever the first line is shorter than
\* 40 bytes or its bytes 21-40 differ from "COMPACT RINEX FORMAT", whatever
\* the version field holds: the magic check precedes the version check.
C4_BadMagicFirst ==
  (rd.pc # "start" /\ BadMagicLine) =>
     (rd.pc = "failed" /\ rd.err.is = "ErrBadMagic" /\ rd.out = <<>>)

C4_Witness ==
  /\ lastOp = "setup" /\ rd.pc = "failed"
  /\ Len(FirstLine) >= 40
  /\ SubSeq(FirstLine, 21, 40) # MAGIC
  /\ VersionField \notin {VER_1_0, VER_3_0, <<"3", ".", "1">>}
  /\ rd.err.is = "ErrBadMagic"

\* C5: given a first line with a valid magic, setup returns no error exactly
\* when the trimmed bytes 1-20 are "1.0", "3.0" or "3.1", and
\* ErrNotSupportedVersion for every other value; on success the two CRINEX
\* lines (as many of them as the input has) have been consumed.
C5_VersionGate ==
  (lastOp = "setup" /\ ~BadMagicLine) =>
     IF VersionField \in {VER_1_0, VER_3_0, <<"3", ".", "1">>}
     THEN rd.pc = "header" /\ rd.err = NoErr /\ rd.pos = Min(2, Len(InputLines))
     ELSE rd.pc = "failed" /\ rd.err.is = "ErrNotSupportedVersion"

\* a line carries the header label lab from byte 61
HasLabel(line, lab) == Len(line) >= 61 /\ HasPrefix(SubSeq(line, 61, Len(line)), lab)

\* the index of the first END OF HEADER line after line p, 0 if there is none
HeaderEnd(p) ==
  LET f == InputLines
      ends == {k \in (p + 1)..Len(f) : HasLabel(f[k], L_END)}
  IN IF ends = {} THEN 0 ELSE CHOOSE k \in ends : \A j \in ends : k <= j

\* the index of the last header line scanHeader reads when started after line p
HeaderLast(p) == IF HeaderEnd(p) = 0 THEN Len(InputLines) ELSE HeaderEnd(p)

\* the indexes of the RINEX VERSION / TYPE lines of the header after line p
VersionLines(p) == {k \in (p + 1)..HeaderLast(p) : HasLabel(InputLines[k], L_VER)}

\* the trimmed columns 1-20 of the last RINEX VERSION / TYPE line
RinexVersionField(p) ==
  LET k == CHOOSE i \in VersionLines(p) : \A j \in VersionLines(p) : j <= i
  IN TrimSpace(SubSeq(InputLines[k], 1, 20))

\* C6: scanHeader returns an error wrapping ErrInvalidHeader when the header
\* has no RINEX VERSION / TYPE line or the input ends before END OF HEADER,
\* and otherwise ErrNotSupportedVersion when the RINEX major version byte is
\* below '2'; it returns no nil error in these cases.
C6_FatalHeaderErrors ==
  lastOp = "header" =>
    LET p == rdPrev.pos
    IN /\ (VersionLines(p) = {} \/ HeaderEnd(p) = 0) =>
            (rd.pc = "failed" /\ rd.err.is = "ErrInvalidHeader")
       /\ (/\ VersionLines(p) # {} /\ HeaderEnd(p) # 0
           /\ Len(RinexVersionField(p)) > 0
           /\ Code(RinexVersionField(p)[1]) < Code("2")) =>
            (rd.pc = "failed" /\ rd.err.is = "ErrNotSupportedVersion")

\* a header line as the echo holds it
EchoLine(line) ==
  IF Len(line) < 61 THEN line \o [k \in 1..(60 - Len(line)) |-> " "] \o COMMENT
  ELSE line

RECURSIVE EchoOf(_, _, _)
\* the echo of the lines lo..hi of f
EchoOf(f, lo, hi) ==
  IF lo > hi THEN <<>> ELSE EchoLine(f[lo]) \o <<NL>> \o EchoOf(f, lo + 1, hi)

\* C7: the header echo of scanHeader is the lines read after the two CRINEX
\* lines up to and including the END OF HEADER line, in order, each followed
\* by one newline; only a line shorter than 61 bytes is changed (padded to
\* column 60 and suffixed with "COMMENT"); no line after END OF HEADER is
\* consumed.
C7_HeaderEcho ==
  (lastOp = "header" /\ rd.pc # "panic") =>
     /\ rd.hdr = EchoOf(InputLines, rdPrev.pos + 1, HeaderLast(rdPrev.pos))
     /\ rd.pos = HeaderLast(rdPrev.pos)
     /\ rd.pc = "epochs" => rd.out = rd.hdr

C7_Witness ==
  /\ lastOp = "header" /\ rd.pc = "epochs" /\ rdPrev.pos = 2
  /\ HeaderEnd(2) # 0 /\ HeaderEnd(2) < Len(InputLines)
  /\ \E k \in 3..HeaderEnd(2) : Len(InputLines[k]) = 60
  /\ \E k \in 3..HeaderEnd(2) : Len(InputLines[k]) = 61
  /\ \E k \in 3..HeaderEnd(2) : Len(InputLines[k]) = 0
  /\ rd.out = rd.hdr /\ Len(rd.hdr) > 0

\* the observation-type lines of these headers do not parse: a count that is
\* no number, a missing continuation line
ObsTypeFaults == {"h3badCount", "h3noCont", "h2badCount"}

\* C8: when the observation-type header lines cannot be parsed (bad count
\* field, missing continuation line), scanHeader still returns no error and
\* the decoding of the data epochs proceeds.
C8_ObsTypeErrorsTolerated ==
  (lastOp = "header" /\ rdPrev.pos = 2 /\ file.hdr \in ObsTypeFaults) =>
     (rd.pc = "epochs" /\ rd.err = NoErr)

\* the epoch line the last iteration of the epoch loop started with
EpochLine == InputLines[rdPrev.pos + 1]

\* an initialization line that is a special event: the epoch flag (byte 32
\* of a '>' line of 35 bytes or more, byte 29 of a '&' line of 32 bytes or
\* more) is above '1' and the three bytes after it parse as a number
SpecialEventLine(line) ==
  \/ /\ Len(line) >= 35 /\ line[1] = ">"
     /\ Code(line[32]) > Code("1")
     /\ AtoiOk(TrimSpace(SubSeq(line, 33, 35)))
  \/ /\ Len(line) >= 32 /\ line[1] = "&"
     /\ Code(line[29]) > Code("1")
     /\ AtoiOk(TrimSpace(SubSeq(line, 30, 32)))

\* the count of a special event line
EventCount(line) ==
  IF line[1] = ">" THEN AtoiVal(TrimSpace(SubSeq(line, 33, 35)))
  ELSE AtoiVal(TrimSpace(SubSeq(line, 30, 32)))

\* an initialization line that starts an epoch
PlainInitLine(line) ==
  Len(line) > 0 /\ line[1] \in {">", "&"} /\ ~SpecialEventLine(line)

\* the satellites the epoch line names, for the version of the input
SatsOfLine(line) ==
  IF rd.ver = VER_3_0 THEN getSatList(line) ELSE getSatListV1(line)

\* the satellite map built from the lines after line p alone
FreshData(line, p) ==
  ReadSats(InputLines, rd.ver, rd.obsTypes, SatsOfLine(line), 0, EmptyMap, FALSE, p)

\* C9: after an epoch line with an initialization flag ('>' or '&') that is
\* no special event, the epoch buffer is exactly that line and the satellite
\* map holds only what the satellite lines of this epoch put into an empty
\* map, so the epoch's output is built from these lines alone.
C9_InitLineResets ==
  (lastOp = "epoch" /\ PlainInitLine(EpochLine)) =>
     /\ rd.epochRec = EpochLine
     /\ ~rd.dataNil
     /\ DOMAIN rd.data \subseteq {SatsOfLine(EpochLine)[k] : k \in 1..Len(SatsOfLine(EpochLine))}
     /\ rd.pc = "epochs" =>
          /\ rd.data = FreshData(EpochLine, rdPrev.pos + 2).data
          /\ \E slack \in BOOLEAN :
               rd.out = rdPrev.out \o
                 (IF rd.ver = VER_3_0
                  THEN EmitV3(EpochLine, rd.clk, SatsOfLine(EpochLine), rd.data).bytes
                  ELSE EmitV1(EpochLine, rd.clk, SatsOfLine(EpochLine), rd.data, slack).bytes)

C9_Witness ==
  /\ lastOp = "epoch" /\ rd.pc = "epochs"
  /\ PlainInitLine(EpochLine)
  /\ DOMAIN rdPrev.data # {}
  /\ DOMAIN rd.data # {}
  /\ DOMAIN rd.data # DOMAIN rdPrev.data
  /\ rdPrev.epochRec # <<>> /\ rdPrev.epochRec # EpochLine

RECURSIVE Forwarded(_, _, _)
\* the n lines after line p of f, each followed by a newline; a line past
\* the end of the input reads as the empty line
Forwarded(f, p, n) ==
  IF n <= 0 THEN <<>>
  ELSE (IF p < Len(f) THEN f[p + 1] ELSE <<>>) \o <<NL>> \o Forwarded(f, p + 1, n - 1)

\* C10: an initialization epoch line whose epoch flag is above '1' and whose
\* count field parses to n is a special event: the event line and the next n
\* input lines go to the output verbatim and in order, the loop continues
\* with the line after them, and the epoch buffer, the clock record and the
\* satellite map are as they were.
C10_SpecialEventPassThrough ==
  (lastOp = "epoch" /\ SpecialEventLine(EpochLine)) =>
     LET n == EventCount(EpochLine)
         p == rdPrev.pos + 1
     IN /\ rd.out = rdPrev.out \o EpochLine \o <<NL>> \o Forwarded(InputLines, p, n)
        /\ rd.pos = (IF n <= 0 THEN p ELSE IF p + n < Len(InputLines) THEN p + n
                     ELSE Len(InputLines))
        /\ rd.pc = "epochs"
        /\ rd.epochRec = rdPrev.epochRec
        /\ rd.clk = rdPrev.clk
        /\ rd.data = rdPrev.data /\ rd.dataNil = rdPrev.dataNil

C10_Witness ==
  /\ lastOp = "epoch" /\ SpecialEventLine(EpochLine)
  /\ EpochLine[1] = "&" /\ EpochLine[29] = "4" /\ EventCount(EpochLine) = 2
  /\ rdPrev.pos + 3 <= Len(InputLines)
  /\ DOMAIN rdPrev.data # {} /\ rdPrev.epochRec # <<>>
  /\ rd.out = rdPrev.out \o EpochLine \o <<NL>>
                \o InputLines[rdPrev.pos + 2] \o <<NL>>
                \o InputLines[rdPrev.pos + 3] \o <<NL>>

-----------------------------------------------------------------------------
(* C12: the three-update scenario of an order-3 observable                 *)

\* the diffRecord after the token 3&123456 and k further tokens "1", given
\* the value v it then holds
AfterOnes(k, v) ==
  [MaxDiff |-> 3, refData |-> v, diffData |-> [j \in 1..k |-> 1], missing |-> FALSE]

\* the token "1" is fed to the diffRecord in this step
FeedsOne == Feed(<<"1">>)

\* C12 as stated: after 3&123456 the token "1" in each of the next three
\* epochs yields 123.457, 123.459 and 123.462.
C12_ScenarioAsStated ==
  [][ /\ (rec = AfterOnes(0, 123456) /\ FeedsOne) => rec'.refData = 123457
      /\ (rec = AfterOnes(1, 123457) /\ FeedsOne) => rec'.refData = 123459
      /\ (rec = AfterOnes(2, 123459) /\ FeedsOne) => rec'.refData = 123462 ]_vars

\* C12 amended: after 3&123456 the token "1" in each of the next three
\* epochs yields 123.457, 123.459 and 123.463 (the third token is a third
\* difference: the second difference becomes 2 and the first becomes 4).
C12_ThreeUpdates ==
  [][ /\ (rec = AfterOnes(0, 123456) /\ FeedsOne) => rec' = AfterOnes(1, 123457)
      /\ (rec = AfterOnes(1, 123457) /\ FeedsOne) => rec' = AfterOnes(2, 123459)
      /\ (rec = AfterOnes(2, 123459) /\ FeedsOne) => rec' = AfterOnes(3, 123463) ]_vars

C12_Witness ==
  /\ rec = AfterOnes(3, 123463) /\ drInit /\ drUpd = 3 /\ drSteps = 4
  /\ drErr = "nil" /\ ~drPanic

-----------------------------------------------------------------------------
(* C14, C15: the 14-byte value field                                       *)

\* -999999999999 <= x <= 9999999999999, on the number of digits
InValueRange(x) ==
  IF x.neg THEN Len(x.digs) <= 12 ELSE Len(x.digs) <= 13

\* the integer digits of x / 1000 (truncated) and its three fractional digits
IntegerDigits(x) ==
  IF Len(x.digs) <= 3 THEN <<"0">> ELSE SubSeq(x.digs, 1, Len(x.digs) - 3)

FractionDigits(x) ==
  LET ds == ZeroPadLeft(x.digs, 3) IN SubSeq(ds, Len(ds) - 2, Len(ds))

\* sign, integer digits, point, three fractional digits
ValueText(x) ==
  (IF x.neg THEN <<"-">> ELSE <<>>) \o IntegerDigits(x) \o <<".">> \o FractionDigits(x)

\* C14: for -999999999999 <= n <= 9999999999999, intToRinexDataBytes(n) is
\* exactly 14 bytes: the decimal of n/1000 with exactly three fractional
\* digits, right-justified with spaces, the '-' immediately before the first
\* integer digit, a single '0' integer digit when |n| < 1000, no rounding and
\* no logger call; -1 gives "        -0.001", 1234567 gives
\* "      1234.567" and 0 gives "         0.000".
C14_ValueField ==
  (fop = "value" /\ InValueRange(fin.x)) =>
     /\ Len(fout) = 14
     /\ fout = Spaces(14 - Len(ValueText(fin.x))) \o ValueText(fin.x)
     /\ ~fwarn
     /\ fin.x = Numeral(0 - 1) => fout = Spaces(8) \o <<"-", "0", ".", "0", "0", "1">>
     /\ fin.x = Numeral(1234567) =>
          fout = Spaces(6) \o <<"1", "2", "3", "4", ".", "5", "6", "7">>
     /\ fin.x = Numeral(0) => fout = Spaces(9) \o <<"0", ".", "0", "0", "0">>

\* a negative value of twelve digits: the sign takes the first column
C14_Witness ==
  /\ fop = "value" /\ fin.x.neg /\ Len(fin.x.digs) = 12
  /\ fout = <<"-", "1", "0", "0", "0", "0", "0", "0", "0", "0", ".", "0", "1", "9">>

\* C15: a value above 9999999999999 is emitted as "9999999999.999" and one
\* below -999999999999 as "-999999999.999"; the logger is written to, and
\* the call returns these 14 bytes and nothing else (the function has no
\* error result and takes its argument by value).
C15_OverflowClamp ==
  (fop = "value" /\ ~InValueRange(fin.x)) =>
     /\ fout = IF fin.x.neg THEN OVERFLOW_NEG ELSE OVERFLOW_POS
     /\ Len(fout) = 14
     /\ fwarn

\* the smallest value below the range
C15_Witness ==
  /\ fop = "value" /\ fin.x.neg
  /\ fin.x.digs = <<"1", "0", "0", "0", "0", "0", "0", "0", "0", "0", "0", "0", "0">>
  /\ fout = OVERFLOW_NEG /\ fwarn

-----------------------------------------------------------------------------
(* C18: the RINEX 2 epoch lines of more than twelve satellites             *)

\* the number of newlines of bytes
LineCount(bytes) == Cardinality({i \in 1..Len(bytes) : bytes[i] = NL})

\* the position of the k-th newline of bytes (0 for k = 0)
LineEnd(bytes, k) ==
  IF k = 0 THEN 0
  ELSE CHOOSE i \in 1..Len(bytes) :
         bytes[i] = NL /\ Cardinality({j \in 1..i : bytes[j] = NL}) = k

\* the lines of bytes that a newline ends, without their newlines
SplitLines(bytes) ==
  [k \in 1..LineCount(bytes) |->
     SubSeq(bytes, LineEnd(bytes, k - 1) + 1, LineEnd(bytes, k) - 1)]

RECURSIVE IdColumns(_, _)
\* what the lines from line k on hold after their first 32 columns; of the
\* first line only the 36 columns of its twelve IDs
IdColumns(ls, k) ==
  IF k > Len(ls) THEN <<>>
  ELSE (IF k = 1 THEN SubSeq(ls[k], 33, 68) ELSE SubSeq(ls[k], 33, Len(ls[k])))
       \o IdColumns(ls, k + 1)

\* a buffer that lists as many satellites as its count field reports
ListsAllIds(in) == Len(in.buf) >= 32 + 3 * in.n /\ in.buf = EpochBufV1(in.n, in.n, Len(in.buf) - 32 - 3 * in.n)

\* C18: a CRINEX 1 epoch buffer with n > 12 satellites gives exactly
\* ceil(n/12) lines: the first holds a space and bytes 2..68 of the buffer,
\* each continuation line is 32 spaces and the next up-to-12 IDs, the IDs of
\* all lines together are the n IDs in order, and the clock offset, when
\* present, is appended to the first line only.
C18_ContinuationLines ==
  (fin.kind = "epochV2" /\ fin.n > 12 /\ ListsAllIds(fin) /\ fop # "none") =>
     /\ fop = "epochV2"
     /\ Len(SplitLines(fout)) = (fin.n + 11) \div 12
     /\ Last(fout) = NL
     /\ SplitLines(fout)[1] =
          <<" ">> \o SubSeq(fin.buf, 2, 68)
            \o (IF fin.clk.nan THEN <<>> ELSE FixedPoint(fin.clk.ref, 9, 12))
     /\ \A k \in 2..Len(SplitLines(fout)) :
          SplitLines(fout)[k] =
            Spaces(32) \o SatIds(12 * (k - 1) + 1, Min(12 * k, fin.n))
     /\ IdColumns(SplitLines(fout), 1) = SatIds(1, fin.n)

\* 25 satellites with a clock offset: three lines, the last with one ID
C18_Witness ==
  /\ fop = "epochV2" /\ fin.kind = "epochV2" /\ fin.n = 25 /\ ListsAllIds(fin)
  /\ ~fin.clk.nan
  /\ Len(SplitLines(fout)) = 3
  /\ SplitLines(fout)[3] = Spaces(32) \o SatId(25)

-----------------------------------------------------------------------------
(* C17: the RINEX 2 data lines of a satellite                              *)

\* the 16 columns of observable k of the record sd
ObsColumns(sd, k) ==
  IF sd.data[k].missing THEN Spaces(16)
  ELSE Spaces(14 - Len(ValueText(Numeral(sd.data[k].refData))))
         \o ValueText(Numeral(sd.data[k].refData)) \o <<sd.lli[k][1], sd.ss[k][1]>>

RECURSIVE ObsRun(_, _, _)
\* the columns of observables from..to of sd, in index order
ObsRun(sd, from, to) ==
  IF from > to THEN <<>> ELSE ObsColumns(sd, from) \o ObsRun(sd, from + 1, to)

\* the lines of one satellite: five observables each, right-trimmed
SatLinesV1(sd) ==
  [j \in 1..((Len(sd.data) + 4) \div 5) |->
     TrimRight(ObsRun(sd, 5 * (j - 1) + 1, Min(5 * j, Len(sd.data))))]

RECURSIVE AllSatLinesV1(_, _, _)
AllSatLinesV1(satList, data, k) ==
  IF k > Len(satList) THEN <<>>
  ELSE SatLinesV1(data[satList[k]]) \o AllSatLinesV1(satList, data, k + 1)

\* C17: under CRINEX 1.0 a satellite with n >= 1 observables gives exactly
\* ceil(n/5) data lines without a satellite-ID prefix: the observables in
\* index order, 16 columns each before the right-trim, a line break after
\* every fifth observable and after the last one (one break when n is a
\* multiple of 5).
C17_DataLinesV1 ==
  (fin.kind = "dataV1" /\ fop # "none") =>
     /\ fop = "dataV1"
     /\ Last(fout) = NL
     /\ SplitLines(fout) = AllSatLinesV1(fin.satList, fin.data, 1)
     /\ Len(fin.satList) = 1 =>
          LineCount(fout) = (Len(fin.data[G01].data) + 4) \div 5

\* ten observables with flags: two lines of 80 columns
C17_Witness ==
  /\ fop = "dataV1" /\ fin.kind = "dataV1" /\ fin.satList = <<G01>>
  /\ Len(fin.data[G01].data) = 10
  /\ LineCount(fout) = 2
  /\ Len(SplitLines(fout)[1]) = 80 /\ Len(SplitLines(fout)[2]) = 80

-----------------------------------------------------------------------------
(* C11: the line after a special-event block                               *)

Range(s) == {s[k] : k \in 1..Len(s)}

\* the blocks that are a special-event line with its counted lines
EventBlocks == {"event", "v1event"}

\* the number of the first line of block k of the file fl
BlockStart(fl, k) ==
  Len(HeadLines(fl.head)) + Len(HeaderLines(fl.hdr))
    + Len(BodyLines(SubSeq(fl.body, 1, k - 1))) + 1

\* the numbers of the lines of fl that follow a special-event block and
\* start with neither '>' nor '&'
UninitAfterEvent(fl) ==
  {BlockStart(fl, k + 1) :
     k \in {j \in 1..(Len(fl.body) - 1) :
              /\ fl.body[j] \in EventBlocks
              /\ ~IsInitLine(BlockLines(fl.body[j + 1])[1])}}

\* C11: a line that follows a special-event block and has no initialization
\* flag is never applied as a diff to the epoch buffer: once the Scanner has
\* read it, its number is not among the lines passed to epochRec.Decode, and
\* the ScanEpoch that read it failed with an error wrapping ErrInvalidEpochStr
\* unless it recovered at a later initialization line.
C11_NoDiffAfterEvent ==
  \A q \in UninitAfterEvent(sfile) :
    /\ q \notin Range(sc.diffed)
    /\ (scPrev.pos < q /\ sc.pos >= q /\ scRet = "false")
         => sc.err.is = "ErrInvalidEpochStr"

-----------------------------------------------------------------------------
(* C13: a first data line that sets no LLI and no SS                       *)

\* the data line '3&123456' of the one satellite of the file, with no flag
\* field or with a blank one
NoFlagBodies == {<<"initOne">>, <<"initBlank">>}

\* "G01" and the value 123.456 in 14 bytes
ValueLine == G01 \o Spaces(7) \o <<"1", "2", "3", ".", "4", "5", "6">>

\* C13: under CRINEX 3.0, a satellite first seen after a reset whose line
\* '3&123456' initializes its one observable and sets no LLI or SS (no flag
\* field, or a blank one) is emitted by DataAsBytes as the satellite ID and
\* '       123.456', the two spaces of LLI and SS removed by the right-trim.
C13_BlankFlagsEmitted ==
  (/\ sfile.hdr = "h3one" /\ sfile.body \in NoFlagBodies
   /\ scLog.calls = 1 /\ scLog.trues = 1 /\ scLog.outOf = "data")
  => (scRet = "true" /\ scLog.out = ValueLine \o <<NL>>)

-----------------------------------------------------------------------------
(* C16: the epoch line of CRINEX 3.0                                       *)

\* the first 35 bytes of the buffer, with spaces where the buffer ends
First35(buf) == [k \in 1..35 |-> IF k <= Len(buf) THEN buf[k] ELSE " "]

\* the bytes of a clock field: six spaces and a number of 15 bytes
ClockFieldByte(c) == IsDigit(c) \/ c \in {" ", ".", "-"}

-----------------------------------------------------------------------------
(* C19: the Scanner after a fatal error                                    *)

\* C19: once a ScanEpoch has returned false with Err() non-nil, every later
\* ScanEpoch returns false and Err() is still that first error.
C19_StaysFailed ==
  scLog.failed => (scRet = "false" /\ sc.err = scLog.firstErr)

-----------------------------------------------------------------------------
(* C20: the end of the input                                               *)

\* the blocks that are one epoch: an epoch line, a clock line, a data line
EpochBlocks == {"init", "diff"}

\* a body of complete blocks: epoch blocks and special-event blocks, an
\* epoch block without initialization flag only after another epoch block
WellFormedBody(body) ==
  /\ \A k \in 1..Len(body) : body[k] \in EpochBlocks \cup {"event"}
  /\ \A k \in 1..Len(body) :
       body[k] = "diff" => (k > 1 /\ body[k - 1] \in EpochBlocks)

WellFormed(fl) ==
  /\ fl.head = "crx3.0" /\ fl.hdr = "h3" /\ fl.cut = 0
  /\ WellFormedBody(fl.body)

EpochBlockCount(body) == Cardinality({k \in 1..Len(body) : body[k] \in EpochBlocks})

\* C20: on a well-formed input of complete blocks the calls of ScanEpoch
\* that return true are as many as the epoch blocks of the input: never
\* more, and exactly as many when a call returns false, which it does with
\* Err() == nil on the first call after the last block.
C20_EndOfStream ==
  WellFormed(sfile)
  => /\ scLog.trues <= EpochBlockCount(sfile.body)
     /\ scLog.calls > EpochBlockCount(sfile.body) => scRet = "false"
     /\ scRet = "false" =>
          (scLog.trues = EpochBlockCount(sfile.body) /\ sc.err = NoErr)

-----------------------------------------------------------------------------
(* C21: the retry after a failed scan attempt                              *)

\* the call of ScanEpoch that has just returned had a failed attempt
FailedInCall == sc.fails > scPrev.fails

\* C21: every retry of ScanEpoch starts from a line that begins with an
\* initialization flag, and a call that returns true after a failed attempt
\* has reset the epoch buffer and the satellite map at an initialization line
\* read after the failure
C21_ResyncAtInit ==
  /\ \A k \in 1..Len(sc.retries) : sc.retries[k] \in {">", "&"}
  /\ (FailedInCall /\ scRet = "true") => sc.fresh

\* the retries alone: each starts from an initialization flag
C21_RetryLines ==
  \A k \in 1..Len(sc.retries) : sc.retries[k] \in {">", "&"}

\* a call that returned true after a failed attempt and a reset
C21_Recovered == FailedInCall /\ scRet = "true" /\ sc.fresh

-----------------------------------------------------------------------------
(* C22: the warning list of the Scanner                                    *)

\* the warnings the step adds to the list
AddedWarnings == SubSeq(sc'.warns, Len(sc.warns) + 1, Len(sc'.warns))

\* the step keeps the warnings the list had, and each failed scan attempt
\* of the step added a warning with the number of a line the step consumed
WarningsKept ==
  /\ Len(sc'.warns) >= Len(sc.warns)
  /\ SubSeq(sc'.warns, 1, Len(sc.warns)) = sc.warns
  /\ Cardinality({k \in 1..Len(AddedWarnings) :
                    /\ AddedWarnings[k].msg = "failed to scan epoch"
                    /\ AddedWarnings[k].pos > sc.pos
                    /\ AddedWarnings[k].pos <= sc'.pos}) = sc'.fails - sc.fails

\* C22: in reader.go, every step of the Scanner leaves the warnings recorded
\* before it as a prefix of the list, position and message unchanged, and
\* every failed scan attempt adds a warning with the current line number
C22_WarningsAppendOnly == [][sc.rev = REV_READER => WarningsKept]_vars

\* a call with a failed attempt on a Scanner that already held a warning
C22_Witness ==
  /\ sc.rev = REV_READER /\ FailedInCall
  /\ Len(scPrev.warns) > 0 /\ Len(sc.warns) > Len(scPrev.warns)

-----------------------------------------------------------------------------
(* C23: the difference order of an initialization token                    *)

\* C23: a record that has accepted an initialization token holds a
\* difference order in 1..9: the token 0&v is refused with an error and
\* leaves no record initialized with MaxDiff 0
C23_InitOrderInRange == drInit => rec.MaxDiff \in 1..9

\* the update token after an accepted 0&v: Decode faults
C23_UpdateAfterZeroOrder == drInit /\ rec.MaxDiff = 0 /\ drPanic

-----------------------------------------------------------------------------
(* C24: a satellite system without observation codes under CRINEX 1.0     *)

\* C24: under CRINEX 1.0, once scanEpoch has met a satellite whose system
\* has no entry in the observation-code table, the call of ScanEpoch returns
\* false with an error, and no later call returns true
C24_UnknownSystemFatalV1 ==
  (sc.ver = VER_1_0 /\ sc.unknownSat /\ sc.pc = "ready")
    => (scRet = "false" /\ (~scPrev.unknownSat => sc.err # NoErr))

\* the error with no initialization line after it: the call returns false
C24_NoLaterInit ==
  /\ sc.ver = VER_1_0 /\ sc.unknownSat /\ ~scPrev.unknownSat
  /\ scRet = "false" /\ sc.err.is = "unknown satellite found"

-----------------------------------------------------------------------------
(* C25: the repair of the observation-code table under CRINEX 3           *)

\* the Scanner a call of ScanEpoch scans the data with: after the header
\* parse when the call still has to make it
AfterHeader(s) ==
  IF s.headerNil THEN ParseHeader(s, scanHeader(ScanLines(sfile), s.pos)) ELSE s

\* the systems the step adds to the table
NewSystems == DOMAIN sc'.obsTypes \ DOMAIN AfterHeader(sc).obsTypes

\* the warnings of the repair among the warnings the step adds
RepairWarnings ==
  {k \in 1..Len(AddedWarnings) :
     AddedWarnings[k].msg = "satsys not included in obstypes found"}

\* the spaces of a line without its trailing spaces: one less than its fields
SpacesOf(line) == Len(SplitN(TrimRight(line), Len(line) + 1)) - 1

\* the step keeps every entry of the table and registers each absent system
\* once, with a warning and the length its data line gives
TableRepaired ==
  /\ \A y \in DOMAIN AfterHeader(sc).obsTypes :
       y \in DOMAIN sc'.obsTypes /\ sc'.obsTypes[y] = AfterHeader(sc).obsTypes[y]
  /\ Cardinality(RepairWarnings) = Cardinality(NewSystems)
  /\ {Len(sc'.obsTypes[y]) : y \in NewSystems}
       = {SpacesOf(ScanLines(sfile)[AddedWarnings[k].pos]) : k \in RepairWarnings}
  /\ \A y \in NewSystems : \A id \in DOMAIN sc'.data :
       id[1] = y => Len(sc'.data[id].data) = Len(sc'.obsTypes[y])

\* C25: under CRINEX 3 a call of ScanEpoch on a Scanner with a table keeps
\* every entry the table has, adds an entry only for a system that was
\* absent, with one warning and as many observables as the right-trimmed
\* data line has spaces, and decodes the satellite with that many
C25_TableRepairV3 ==
  [][(/\ sc.rev = REV_READER /\ sc.ver = VER_3_0 /\ sc.pc = "ready"
      /\ ~AfterHeader(sc).obsTypesNil)
       => TableRepaired]_vars

\* an epoch of R01 and E01 under a header that declares only G, then a
\* second epoch whose lines have other numbers of spaces
C25_Witness ==
  /\ sc.rev = REV_READER /\ sfile.body = <<"initRE", "diffRE">> /\ scLog.calls = 2
  /\ scRet = "true"
  /\ DOMAIN sc.obsTypes = {"G", "R", "E"}
  /\ Len(sc.obsTypes["R"]) = 4 /\ Len(sc.obsTypes["E"]) = 1
  /\ Len(sc.obsTypes["G"]) = 2
  /\ Len(sc.data[<<"R", "0", "1">>].data) = 4
  /\ Len(sc.warns) = 2

-----------------------------------------------------------------------------
(* C26: the satellites of the list that are not valid                      *)

\* a satellite ID with a system letter of the valid set and no space at
\* its end
IsValidId(id) ==
  id[1] \in {" ", "G", "R", "E", "J", "C", "I", "S"} /\ id[Len(id)] # " "

ValidIndexes(list) == {k \in 1..Len(list) : IsValidId(list[k])}

\* the warnings of the call for satellites of the epoch line it ignored
IgnoredWarnings ==
  {k \in (Len(scPrev.warns) + 1)..Len(sc.warns) :
     /\ sc.warns[k].msg = "ignored invalid satellite"
     /\ sc.warns[k].pos = sc.epochLineNum}

\* the index in the file of the data line of the valid satellite at index k
\* of the list: one line for the clock, one for each valid satellite before
DataLineOf(s, k) == s.epochLineNum + 1 + Cardinality({j \in ValidIndexes(s.satList) : j <= k})

\* the record a new satellite gets from the data line t
FirstRecord(s, id, t) ==
  ScanSatLine(WithNewSat([s EXCEPT !.data = EmptyMap], id, ObsCodesOf(s.obsTypes, id[1])),
              id, t).s.data[id]

\* a call of the reader.go Scanner has returned true for an epoch it read
\* to its end
EpochScanned ==
  /\ sc.rev = REV_READER /\ sc.pc = "ready" /\ scRet = "true" /\ ~sc.eof
  /\ scLog.outOf = "none"

\* C26: an epoch consumes one data line for each valid satellite of its
\* list and none for the others, which get a warning each and no record;
\* the record of a valid satellite of an initialized epoch is the one its
\* own data line gives
C26_InvalidSatellitesSkipped ==
  EpochScanned =>
    /\ sc.pos - sc.epochLineNum - 1 = Cardinality(ValidIndexes(sc.satList))
    /\ Cardinality(IgnoredWarnings) = Len(sc.satList) - Cardinality(ValidIndexes(sc.satList))
    /\ \A k \in 1..Len(sc.satList) :
         IF IsValidId(sc.satList[k])
         THEN /\ sc.satList[k] \in DOMAIN sc.data
              /\ IsInitLine(ScanLines(sfile)[sc.epochLineNum])
                   => sc.data[sc.satList[k]]
                        = FirstRecord(sc, sc.satList[k],
                                      ScanLines(sfile)[DataLineOf(sc, k)])
         ELSE sc.satList[k] \notin DOMAIN sc.data

\* an epoch whose list is an ID that ends with a space, a valid satellite
\* and a satellite of an unknown system
C26_Witness ==
  /\ EpochScanned /\ sfile.body = <<"initSp", "initX">> /\ scLog.calls = 1
  /\ sc.satList = <<(<<"G", "0", " ">>), G02, (<<"Q", "0", "7">>)>>
  /\ DOMAIN sc.data = {G02}
  /\ sc.data[G02].data[1].refData = 100
  /\ Len(sc.warns) = 2
  /\ sc.pos = sc.epochLineNum + 2

-----------------------------------------------------------------------------
(* C27: the value of PicoSeconds                                           *)

C27_FiveDigits == sop = "pico" /\ Len(sbuf) = 5 /\ PicoSeconds(sbuf) \in 0..99999

\* a record that is not numeric: the value is -1
C27_NotNumeric == sop = "pico" /\ Len(sbuf) > 0 /\ PicoSeconds(sbuf) = 0 - 1

-----------------------------------------------------------------------------
(* C28: an observable that is absent in an epoch                           *)

\* the record of observable j of a satellite before the step: a new one for
\* a satellite the map does not have
ObsBefore(id, j) ==
  IF id \in DOMAIN sc.data /\ j <= Len(sc.data[id].data)
  THEN sc.data[id].data[j] ELSE NewDiffRecord

\* the token of observable j among the fields vals of a data line is absent
Absent(vals, j) == j > Len(vals) \/ Len(vals[j]) = 0

\* what an epoch makes of the record old of observable j: an absent token
\* sets the flag and nothing else, another one is decoded over the record
ObsAfter(old, vals, j) ==
  IF Absent(vals, j) THEN [old EXCEPT !.missing = TRUE] ELSE Decode(old, vals[j]).rec

\* the fields of the data line of the satellite at index k of the list
FieldsOf(s, k) ==
  SplitN(ScanLines(sfile)[DataLineOf(s, k)], Len(DataOf(s.data, s.satList[k]).obsCodes) + 1)

\* the step is a call of ScanEpoch that read one epoch without a reset
DiffEpochStep ==
  /\ sc.pc = "ready" /\ scRet' = "true" /\ ~sc'.eof /\ sc'.fails = sc.fails
  /\ Len(sc'.diffed) = Len(sc.diffed) + 1

\* the step is a call of DataAsBytes under CRINEX 3.0 that returned
DataEmitStep ==
  /\ scLog.outOf = "none" /\ scLog'.outOf = "data" /\ scRet' = "true"
  /\ sc.ver = VER_3_0

\* the 16 columns of observable j in a RINEX 3 data line, as far as the
\* right-trimmed line goes
FieldColumns(line, j) == {c \in (3 + 16 * (j - 1) + 1)..(3 + 16 * j) : c <= Len(line)}

C28_Step ==
  /\ DiffEpochStep =>
       \A k \in 1..Len(sc'.satList) : \A j \in 1..Len(DataOf(sc'.data, sc'.satList[k]).data) :
         sc'.data[sc'.satList[k]].data[j]
           = ObsAfter(ObsBefore(sc'.satList[k], j), FieldsOf(sc', k), j)
  /\ DataEmitStep =>
       \A k \in 1..Len(sc.satList) : \A j \in 1..Len(DataOf(sc.data, sc.satList[k]).data) :
         sc.data[sc.satList[k]].data[j].missing
           => \A c \in FieldColumns(SplitLines(scLog'.out)[k], j) :
                SplitLines(scLog'.out)[k][c] = " "

\* C28: an epoch without reset leaves the record of an observable whose
\* token is empty or lies beyond the fields of the line as it was, with the
\* missing flag set; a token that is there is decoded over the record the
\* epochs before left, absent ones included, and clears the flag; the field
\* DataAsBytes writes for a missing observable is blank
C28_AbsentKeepsState == [][C28_Step]_vars

\* after '3&100 2&200 1234', an epoch with the line '5' and an epoch with
\* the line '5 -3 &  9': the second observable was absent with its state
\* kept, then went on from 200 by -3
C28_Witness ==
  /\ sfile.body = <<"init", "diffShort", "diff">> /\ sfile.cut = 0 /\ sfile.hdr = "h3"
  /\ scLog.calls = 3 /\ scRet = "true"
  /\ scPrev.data[G01].data[2] = [MaxDiff |-> 2, refData |-> 200, diffData |-> <<>>,
                                 missing |-> TRUE]
  /\ sc.data[G01].data[2] = [MaxDiff |-> 2, refData |-> 197, diffData |-> <<0 - 3>>,
                             missing |-> FALSE]
  /\ sc.data[G01].data[1].refData = 115

-----------------------------------------------------------------------------
(* C29: the distribution of the flag field                                 *)

\* the step is a call of ScanEpoch that read one epoch to its end at the
\* first attempt
OneEpochStep ==
  /\ sc.pc = "ready" /\ scLog'.calls = scLog.calls + 1
  /\ scRet' = "true" /\ ~sc'.eof /\ sc'.fails = sc.fails

\* the epoch of the step began with an initialization line
ResetInStep == Len(sc'.diffed) = Len(sc.diffed)

\* the satellite record the epoch of the step starts from
RecordBefore(id) ==
  IF ResetInStep \/ id \notin DOMAIN sc.data
  THEN NewSatOf(sc, ObsCodesOf(sc'.obsTypes, id[1]))
  ELSE sc.data[id]

\* a flag buffer after the observable loop: under CRINEX 1.0 a token with
\* '&' at index 1 has set it to a space
FlagBefore(buf, vals, j) ==
  IF sc.ver = VER_1_0 /\ j <= Len(vals) /\ Len(vals[j]) > 1 /\ vals[j][2] = "&"
  THEN [buf EXCEPT ![1] = " "] ELSE buf

\* byte p (0-based) of the flag field, a space beyond its end
FlagChar(field, p) == IF p < Len(field) THEN field[p + 1] ELSE " "

\* a flag buffer after the line with the fields vals of n observables: the
\* byte at offset p of field n overlaid, nothing without that field
FlagAfter(buf, vals, n, p) ==
  IF Len(vals) = n + 1 THEN StrDecode(buf, <<FlagChar(vals[n + 1], p)>>) ELSE buf

\* the LLI and the SS of observable j (1-based) of the satellite at index k
\* are as byte 2(j-1) and byte 2(j-1)+1 of the flag field leave them
FlagsOfLine(id, codes, vals, j) ==
  /\ sc'.data[id].lli[j]
       = FlagAfter(FlagBefore(RecordBefore(id).lli[j], vals, j), vals, Len(codes),
                   2 * (j - 1))
  /\ sc'.data[id].ss[j]
       = FlagAfter(FlagBefore(RecordBefore(id).ss[j], vals, j), vals, Len(codes),
                   2 * (j - 1) + 1)

\* every satellite of the list is valid: the older revision reads a line
\* for each satellite of the list, valid or not
AllValid(list) == ValidIndexes(list) = 1..Len(list)

\* C29: in an epoch, the LLI of observable j of a satellite with n
\* observables is overlaid with byte 2j of field n of its data line and the
\* SS with byte 2j+1 (j from 0), a byte beyond the end of the field counting
\* as a space and the bytes from 2n on ignored; without field n neither
\* changes
C29_FlagFieldByPosition ==
  [][(OneEpochStep /\ (sc.rev = REV_READER \/ AllValid(sc'.satList))) =>
       \A k \in ValidIndexes(sc'.satList) :
         \A j \in 1..Len(sc'.data[sc'.satList[k]].obsCodes) :
           FlagsOfLine(sc'.satList[k], sc'.data[sc'.satList[k]].obsCodes, FieldsOf(sc', k), j)]_vars

\* after the flags '1234', the field '7' and then the field '&67&89' of a
\* satellite with two observables
C29_Witness ==
  /\ sfile.body = <<"init", "diffFlag1", "diffFlagLong">> /\ scLog.calls = 3
  /\ scRet = "true"
  /\ scPrev.data[G01].lli = <<(<<"7">>), (<<"3">>)>>
  /\ scPrev.data[G01].ss = <<(<<"2">>), (<<"4">>)>>
  /\ sc.data[G01].lli = <<(<<" ">>), (<<"7">>)>>
  /\ sc.data[G01].ss = <<(<<"6">>), (<<" ">>)>>

-----------------------------------------------------------------------------
(* C30: LLI and SS under CRINEX 1.0                                        *)

\* a flag buffer that began as one space and was overlaid with single bytes
OneFlag(buf) == Len(buf) = 1 /\ buf[1] # NUL

\* the token of observable j among the fields vals initializes its arc
InitToken1(vals, j) == j <= Len(vals) /\ Len(vals[j]) > 1 /\ vals[j][2] = "&"

\* the LLI and the SS of an observable whose token initializes it are the
\* bytes of the flag field of the line overlaid on a space
ArcFlags(id, codes, vals, j) ==
  InitToken1(vals, j) =>
    /\ sc'.data[id].lli[j] = FlagAfter(<<" ">>, vals, Len(codes), 2 * (j - 1))
    /\ sc'.data[id].ss[j] = FlagAfter(<<" ">>, vals, Len(codes), 2 * (j - 1) + 1)

C30_Step ==
  (sc.ver = VER_1_0 /\ sc.pc = "ready" /\ scLog'.calls = scLog.calls + 1) =>
    /\ \A id \in DOMAIN sc'.data : \A j \in 1..Len(sc'.data[id].obsCodes) :
         OneFlag(sc'.data[id].lli[j]) /\ OneFlag(sc'.data[id].ss[j])
    /\ (OneEpochStep /\ AllValid(sc'.satList)) =>
         \A k \in 1..Len(sc'.satList) :
           \A j \in 1..Len(sc'.data[sc'.satList[k]].obsCodes) :
             ArcFlags(sc'.satList[k], sc'.data[sc'.satList[k]].obsCodes, FieldsOf(sc', k), j)

\* C30: under CRINEX 1.0 every LLI and SS of a satellite record is one
\* byte, a space from the creation of the record or the flag byte laid over
\* it, and after a line whose token has '&' at index 1 the LLI and the SS of
\* that observable are the flag bytes of the same line laid over a space
C30_FlagsFromBlankV1 == [][C30_Step]_vars

\* the older revision: a record created with spaces, then a line whose
\* tokens initialize both observables and has no flag field
C30_ResetInPart ==
  /\ sc.rev = REV_PART /\ sc.ver = VER_1_0 /\ sfile.body = <<"v1flags", "v1diff">>
  /\ scLog.calls = 2 /\ scRet = "true"
  /\ scPrev.data[G01].lli = <<(<<"1">>), (<<" ">>)>>
  /\ sc.data[G01].lli = <<(<<" ">>), (<<" ">>)>>
  /\ sc.data[G01].ss = <<(<<" ">>), (<<" ">>)>>

\* reader.go: the first line with an initializing token faults
C30_PanicInReader ==
  /\ sc.rev = REV_READER /\ sc.ver = VER_1_0 /\ sfile.body = <<"v1init">>
  /\ sfile.hdr = "h2" /\ scLog.calls = 1 /\ scRet = "panic"

-----------------------------------------------------------------------------
(* C31: the clock record at an initialization line                         *)

\* the last ScanEpoch returned true for an epoch block that it read whole
\* and whose epoch line has an initialization flag
InitEpochScanned ==
  /\ sc.pc = "ready" /\ scRet = "true" /\ ~sc.eof
  /\ sc.epochLineNum >= 1
  /\ IsInitLine(ScanLines(sfile)[sc.epochLineNum])

\* the first field of the clock line of the epoch block last scanned
ClockFieldOf(s) == ClockBytes(s.rev, ScanLines(sfile)[s.epochLineNum + 1])

\* what ClockOffset() and the epoch line report of a clock record
ClockReported(clk) ==
  [missing |-> clk.missing, offset |-> IF clk.missing THEN 0 ELSE clk.refData]

\* a clock update token follows the initialization flag
ClockUpdateAfterFlag == Len(ClockFieldOf(sc)) > 0 /\ ~(Len(ClockFieldOf(sc)) > 2 /\ ClockFieldOf(sc)[2] = "&")

\* C31: after an epoch block whose epoch line has an initialization flag,
\* the clock offset reported is the one its clock line gives on a clock
\* record without history, whatever clock lines came before the flag
C31_ClockSinceFlag ==
  InitEpochScanned =>
    ClockReported(sc.clk) = ClockReported(Decode(NewDiffRecord, ClockFieldOf(sc)).rec)

\* an initialization token on the clock line after a flag erases the history
C31_InitTokenAfterFlag ==
  /\ InitEpochScanned /\ sfile.body = <<"initClk", "initClk">> /\ scLog.calls = 2
  /\ sc.clk = [MaxDiff |-> 2, refData |-> 5, diffData |-> <<>>, missing |-> FALSE]

\* an update token on the clock line after a flag is added to the history
C31_UpdateTokenCombined ==
  /\ InitEpochScanned /\ sfile.body = <<"initClk", "initUpd">> /\ scLog.calls = 2
  /\ ClockUpdateAfterFlag
  /\ scPrev.clk.refData = 5 /\ sc.clk.refData = 8

-----------------------------------------------------------------------------
(* C32: the map of satellite records                                       *)

\* the sequences of a satellite record have the length of the observation
\* codes of the system of satId
ParallelArrays(id, sd) ==
  /\ Len(sd.data) = Len(ObsCodesOf(sc.obsTypes, id[1]))
  /\ Len(sd.lli) = Len(sd.data)
  /\ Len(sd.ss) = Len(sd.data)
  /\ Len(sd.obsCodes) = Len(sd.data)

\* C32: in every state of the Scanner the keys of s.data are satellites
\* whose data line has been read since the last initialization line, and
\* the value, LLI and SS sequences of every record have the length of the
\* observation codes of the system of its satellite
C32_MapInvariant ==
  /\ DOMAIN sc.data \subseteq sc.seen
  /\ \A id \in DOMAIN sc.data : ParallelArrays(id, sc.data[id])

\* a second initialization line has replaced the map of G01 by one of two
\* satellites of systems the header does not declare
C32_Witness ==
  /\ sc.rev = REV_READER /\ sfile.body = <<"init", "initRE">>
  /\ scLog.calls = 2 /\ scRet = "true"
  /\ DOMAIN scPrev.data = {G01}
  /\ DOMAIN sc.data = {<<"R", "0", "1">>, <<"E", "0", "1">>}
  /\ Len(sc.data[<<"R", "0", "1">>].data) = 4
  /\ Len(sc.data[<<"E", "0", "1">>].lli) = 1

-----------------------------------------------------------------------------
(* C33: an initialization token erases the history of a diffRecord         *)

\* C33: two records with different histories that have both accepted the
\* same initialization token, and were fed the same tokens since, agree in
\* MaxDiff, refData, diffData and the missing flag after every token, and
\* their Decode calls end alike
C33_ReinitErasesHistory ==
  twin.synced =>
    /\ rec.MaxDiff = twin.rec.MaxDiff
    /\ rec.refData = twin.rec.refData
    /\ rec.diffData = twin.rec.diffData
    /\ rec.missing = twin.rec.missing
    /\ drErr = twin.err /\ drPanic = twin.panic

\* records that differed before the token agree after three update tokens
C33_Witness ==
  /\ twin.synced /\ twin.differed /\ twin.steps = 3
  /\ twin.priorA = 2 /\ twin.priorB = 2
  /\ rec.MaxDiff = 2 /\ Len(rec.diffData) = 2 /\ rec = twin.rec
  /\ ~drPanic /\ drErr = "nil"

-----------------------------------------------------------------------------
(* C34: faults of diffRecord.Decode                                        *)

\* C34: no Decode call on a diffRecord faults, whatever the token and the
\* tokens the record was fed before
C34_DecodeNeverFaults == ~drPanic

\* the first token of a record is an update token: dv[0] of an empty slice
C34_FirstTokenUpdate ==
  /\ drPanic /\ drSteps = 1 /\ ~drInit
  /\ rec.MaxDiff = 0 /\ rec.diffData = <<>>

\* the Scanner: the first clock line of a file is an update token
C34_FirstClockLine ==
  /\ sfile.body = <<"initUpd">> /\ sfile.hdr = "h3" /\ sfile.cut = 0
  /\ scLog.calls = 1 /\ scRet = "panic" /\ sc.pos = sc.epochLineNum + 1

-----------------------------------------------------------------------------
(* C35: the record after a Decode call that returned an error              *)

\* the Decode call of this step returned an error
DecodeFailed == drSteps' = drSteps + 1 /\ drErr' # "nil"

C35_Step ==
  DecodeFailed =>
    /\ rec'.MaxDiff = rec.MaxDiff
    /\ rec'.refData = rec.refData
    /\ rec'.diffData = rec.diffData
    /\ rec'.missing = (IF Len(drTok') > 2 /\ drTok'[2] = "&" THEN rec.missing ELSE TRUE)

\* C35: a Decode call that returns an error leaves MaxDiff, refData and
\* diffData as they were; the missing flag is unchanged when the token is an
\* initialization token and TRUE when it is an update token
C35_ErrorKeepsState == [][C35_Step]_vars

\* an update token that is not an integer, on a record that holds a
\* reference value and one difference
C35_Witness ==
  /\ drErr = "syntax" /\ drTok = <<"x">> /\ ~drPanic
  /\ rec = [MaxDiff |-> 2, refData |-> 0, diffData |-> <<1>>, missing |-> TRUE]

\* an initialization token whose value is not an integer, on a record that
\* holds a reference value
C35_BadInitToken ==
  /\ drErr = "syntax" /\ drTok = <<"2", "&", "x">>
  /\ rec = [MaxDiff |-> 1, refData |-> 5, diffData |-> <<>>, missing |-> FALSE]

-----------------------------------------------------------------------------
(* C36: zero bytes in a strRecord                                          *)

\* C36: the buffer of a strRecord that was empty and has been patched with
\* patches free of zero bytes, or assigned such lines, holds no zero byte
C36_NoZeroByte == \A k \in 1..Len(sbuf) : sbuf[k] # NUL

\* the buffer grows under a patch that starts with a space
C36_GrownUnderSpace ==
  /\ sop = "decode" /\ sprev = <<>> /\ spatch = <<" ", "a">>
  /\ sbuf = <<NUL, "a">>


\* DataAsBytes of the Scanner emits a zero byte for an LLI whose flag byte
\* was a space when its buffer was created
C36_ZeroByteEmitted ==
  /\ sc.ver = VER_3_0 /\ sfile.hdr = "h3one" /\ sfile.body = <<"initBlank">>
  /\ scLog.outOf = "data" /\ scRet = "true"
  /\ \E k \in 1..Len(scLog.out) : scLog.out[k] = NUL

-----------------------------------------------------------------------------
(* C37: ScanEpoch terminates                                               *)

\* C37: every ScanEpoch call that has begun returns: after finitely many
\* steps the call has ended with true or false, or with a fault
C37_ScanEpochTerminates == (loop.pc # "idle") ~> (loop.pc = "idle")

\* the place of a call in ScanEpoch, ranked: a line that has a '>' after
\* its first byte is tried, fails, is cut and tried again; a line without
\* one is tried, fails and sends the call to the search
LoopRank(l) ==
  CASE l.pc = "scan" -> 6
    [] l.pc = "check" -> IF Truncates(l.epochStr) THEN 5 ELSE 3
    [] l.pc = "failed" -> IF Truncates(l.epochStr) THEN 4 ELSE 2
    [] l.pc = "seek" -> 1
    [] OTHER -> 0

\* every step of a call that does not end it reads a line or moves to a
\* place of lower rank: no jump to RETRY_SCAN_EPOCH comes back to a state
\* the call was in
C37_StepsDescend ==
  [][(loop.pc # "idle" /\ loop'.pc # "idle") =>
       \/ sc'.pos > sc.pos
       \/ sc'.pos = sc.pos /\ LoopRank(loop') < LoopRank(loop)]_vars

\* the step by step call leaves what the call in one step leaves
C37_SameAsOneStep ==
  (loop.pc = "idle" /\ scLog.calls > 0 /\ scRet \in {"true", "false", "panic"}) =>
    /\ ScanEpoch(ScanLines(sfile), scPrev).ret = scRet
    /\ [ScanEpoch(ScanLines(sfile), scPrev).s EXCEPT !.pc = sc.pc] = sc

\* a call that failed on a line, searched for the next initialization line,
\* retried from it and returned true
C37_Witness ==
  /\ sfile.body = <<"init", "junk", "init">> /\ sc.rev = REV_READER
  /\ loop.pc = "idle" /\ scLog.calls = 2 /\ scRet = "true"
  /\ sc.fails = 1 /\ sc.retries = <<">">>
  /\ sc.pos = Len(ScanLines(sfile))

\* a call that retried from a '>' in the middle of its line
C37_RetriedInLine ==
  /\ sfile.body = <<"junkInit">> /\ loop.pc = "idle" /\ scLog.calls = 1
  /\ scRet = "true" /\ sc.fails = 1 /\ sc.retries = <<">">>


-----------------------------------------------------------------------------
\* The input ends inside an epoch block and ScanEpoch returns true for it.

\* the last ScanEpoch call returned true for a block the input ended in
CutShort == sc.pc = "ready" /\ scLog.calls >= 1 /\ scRet = "true" /\ sc.eof

\* the satellites whose data line the last ScanEpoch call read, in order
ReadInCall ==
  [k \in 1..Cardinality({j \in 1..Len(sc.lineRead) : sc.lineRead[j].at > scPrev.pos}) |->
     sc.lineRead[Len(sc.lineRead)
                 - Cardinality({j \in 1..Len(sc.lineRead) : sc.lineRead[j].at > scPrev.pos})
                 + k].sat]

\* the number of satellites written in the epoch buffer
CountInEpoch ==
  IF sc.ver = VER_3_0 THEN NumSatField(sc.epochRec, 32) ELSE NumSatField(sc.epochRec, 29)

\* C38: when the input ends in the middle of an epoch block and ScanEpoch
\* returns true for it, SatList() holds exactly the satellites whose data line
\* that call read, and the count in the epoch buffer is the length of SatList()
C38_OnlyWhatWasRead ==
  CutShort => /\ sc.satList = ReadInCall
              /\ CountInEpoch = Len(sc.satList)

\* in reader.go the block that ends after its clock line reports its first
\* satellite, whose data line was never read, and counts it
C38_MissingLineReported ==
  /\ CutShort /\ sc.rev = REV_READER /\ scLog.calls = 1
  /\ sfile.body = <<"init">> /\ sfile.cut = 1
  /\ ReadInCall = <<>>
  /\ Len(sc.satList) = 1
  /\ CountInEpoch = 1

-----------------------------------------------------------------------------
\* The one-shot reader and the pull Scanner on the same file.

\* the loop of the usage example has ended without a fault
PullDone == sc.pc = "ready" /\ scLog.calls >= 1 /\ scRet = "false"

\* what the usage example has written: Header(), then each epoch
PulledBytes == sc.header \o scLog.pulled

\* C39: for a well-formed CRINEX file, special-event blocks included, the
\* bytes of Header() followed by EpochAsBytes() and DataAsBytes() of each
\* ScanEpoch that returned true are the bytes NewReader returns
C39_FormsAgree ==
  rd.pc = "done" /\ PullDone => PulledBytes = rd.out


\* a file without a special-event block
NoEventBlock == \A k \in 1..Len(sfile.body) : sfile.body[k] \notin {"event", "v1event"}

\* the two forms agree on the files that have no special-event block
C39_AgreeWithoutEvents ==
  rd.pc = "done" /\ PullDone /\ NoEventBlock => PulledBytes = rd.out

\* NewReader forwards the event line and its two counted lines, the Scanner
\* skips them: the output of NewReader is longer by these three lines
C39_EventLinesOnlyInReader ==
  /\ sfile.body = <<"init", "event", "init">> /\ sc.rev = REV_READER
  /\ rd.pc = "done" /\ PullDone /\ scLog.trues = 2
  /\ Len(rd.out) = Len(PulledBytes) + Len(BlockLines("event")[1])
                     + Len(BlockLines("event")[2]) + Len(BlockLines("event")[3]) + 3


-----------------------------------------------------------------------------
\* A failure of the header parse inside ScanEpoch.

\* what scanHeader gives on the file after NewScanner
HeaderOf(fl) == scanHeader(ScanLines(fl), setup(ScanLines(fl)).pos)

\* the header parse of the file fails: no RINEX version line, no END OF
\* HEADER, or an unsupported RINEX major
HeaderFails(fl) ==
  /\ setup(ScanLines(fl)).err = NoErr
  /\ ~HeaderOf(fl).panic
  /\ \/ HeaderOf(fl).err.is = "ErrNotSupportedVersion"
     \/ HeaderOf(fl).err.msg \in {"RINEX version not found", "END OF HEADER not found"}

\* no epoch has been decoded
NothingDecoded == sc.epochRec = <<>> /\ sc.data = EmptyMap /\ sc.lineRead = <<>>

\* C40: when the header parse inside ScanEpoch fails, that call returns false
\* with Err() non-nil, and every later ScanEpoch call returns false, decodes
\* no epoch and does not fault
C40_HeaderFailureFinal ==
  HeaderFails(sfile) /\ scLog.calls >= 1
    => /\ scRet = "false" /\ scLog.trues = 0
       /\ scLog.failed /\ scLog.firstErr # NoErr
       /\ NothingDecoded

\* the call that fails returns false and decodes nothing in both revisions
C40_FailingCallReturnsFalse ==
  HeaderFails(sfile) /\ scLog.calls = 1 => scRet = "false" /\ NothingDecoded

\* in reader.go the call that fails leaves Err() non-nil
C40_FailingCallSetsErr ==
  HeaderFails(sfile) /\ scLog.calls = 1 /\ sc.rev = REV_READER => sc.err # NoErr

\* a later call returns false and decodes nothing
C40_LaterCallsReturnFalse ==
  HeaderFails(sfile) /\ scLog.calls >= 2 => scRet = "false" /\ NothingDecoded


\* reader.go after a header without a RINEX version line: the second call
\* skips the header parse, reads the first epoch and faults on the nil
\* observation-type map
C40_LaterCallFaults ==
  /\ HeaderFails(sfile) /\ sfile.hdr = "noVersion" /\ sc.rev = REV_READER
  /\ scLog.calls = 2 /\ scLog.failed
  /\ ~sc.headerNil /\ sc.obsTypesNil
  /\ scRet = "panic"

\* part_000 returns false from the failing call and leaves Err() nil
C40_FailingCallWithoutErr ==
  /\ HeaderFails(sfile) /\ sc.rev = REV_PART
  /\ scLog.calls = 1 /\ scRet = "false" /\ sc.err = NoErr

=============================================================================
